---- MODULE Spec2Model ----
(***************************************************************************)
(* TOONc: a model of the TOON parser, its tree and its query functions.    *)
(* A buffer is a sequence of one-character strings; a pointer into it is a *)
(* 1-based position, and the position just past the end reads as NUL.      *)
(* A toonObject pointer is an index into heap (0 is the null pointer).     *)
(***************************************************************************)
EXTENDS Integers, Sequences, FiniteSets, TLC

VARIABLES input, entry, fp, source, p, line, heap, stack, stack_size, ub, pc, root, call

vars == <<input, entry, fp, source, p, line, heap, stack, stack_size, ub, pc, root, call>>

(***************************************************************************)
(* Characters                                                              *)
(***************************************************************************)
NUL == "NUL"
NL == "\n"
TAB == "\t"
CR == "\r"
SP == " "
NULL == 0

KV_STRING == 0
KV_INT == 1
KV_BOOL == 2
KV_NULL == 3
KV_DOUBLE == 4
KV_OBJ == 5
KV_LIST == 6

StackCap == 64
BufSize == 128

Digits == <<"0", "1", "2", "3", "4", "5", "6", "7", "8", "9">>

isdigit(c) == \E k \in 1..10 : Digits[k] = c

DigitVal(c) == (CHOOSE k \in 1..10 : Digits[k] = c) - 1

isspace(c) == c \in {SP, TAB, NL, CR}

At(s, q) == IF q \in 1..Len(s) THEN s[q] ELSE NUL

\* a null char* (a key or a string payload that was never set)
NoStr == <<NUL>>

\* an array slot or column slot that was allocated and never written
UNINIT == -1

(***************************************************************************)
(* Object creation                                                         *)
(***************************************************************************)
ZeroD == [m |-> 0, e |-> 0]

newObject(kvtype) ==
    [kvtype |-> kvtype, indent |-> 0, key |-> NoStr, str |-> NoStr, i |-> 0,
     d |-> ZeroD, boolean |-> 0, items |-> <<>>, len |-> 0, capacity |-> 0,
     child |-> NULL, next |-> NULL]

newStringObj(s) == [newObject(KV_STRING) EXCEPT !.str = s]

newIntObj(value) == [newObject(KV_INT) EXCEPT !.i = value]

newDoubleObj(value) == [newObject(KV_DOUBLE) EXCEPT !.d = value]

newBoolObj(value) == [newObject(KV_BOOL) EXCEPT !.boolean = IF value # 0 THEN 1 ELSE 0]

newNullObj == newObject(KV_NULL)

newListObj == newObject(KV_LIST)

\* listPush growing into a fresh array instead of a reallocated one
listPushFresh(list, item) ==
    IF list.kvtype # KV_LIST THEN list
    ELSE IF list.len >= list.capacity
    THEN [list EXCEPT !.capacity = IF list.capacity = 0 THEN 4 ELSE list.capacity * 2,
                      !.items = [k \in 1..(IF list.capacity = 0 THEN 4 ELSE list.capacity * 2) |->
                                   IF k = list.len + 1 THEN item ELSE UNINIT],
                      !.len = list.len + 1]
    ELSE [list EXCEPT !.items[list.len + 1] = item, !.len = list.len + 1]

\* listPush on the node record of a list: grow 0 -> 4 -> 8 ..., then store
listPush(list, item) ==
    IF list.kvtype # KV_LIST THEN list
    ELSE LET new_cap == IF list.capacity = 0 THEN 4 ELSE list.capacity * 2
             grown == IF list.len >= list.capacity
                      THEN [list EXCEPT !.capacity = new_cap,
                                        !.items = [k \in 1..new_cap |->
                                                     IF k <= Len(list.items) THEN list.items[k] ELSE UNINIT]]
                      ELSE list
         IN [grown EXCEPT !.items[list.len + 1] = item, !.len = list.len + 1]

(***************************************************************************)
(* Number conversion                                                       *)
(***************************************************************************)
RECURSIVE DigitsVal(_, _)
\* the value of a run of decimal digits, acc being the value read so far
DigitsVal(ds, acc) ==
    IF ds = <<>> THEN acc ELSE DigitsVal(Tail(ds), acc * 10 + DigitVal(Head(ds)))

RECURSIVE DigitRun(_, _)
\* the position after the digits starting at q
DigitRun(s, q) == IF isdigit(At(s, q)) THEN DigitRun(s, q + 1) ELSE q

Half == 65536

RECURSIVE AccDigits(_, _, _, _)
\* the decimal value of the digits ds kept as a 32-bit pattern in two
\* 16-bit halves (hi, lo); wrapped tells that a carry left the 32 bits
AccDigits(ds, hi, lo, wrapped) ==
    IF ds = <<>> THEN [hi |-> hi, lo |-> lo, wrapped |-> wrapped]
    ELSE LET l == lo * 10 + DigitVal(Head(ds))
             h == hi * 10 + l \div Half
         IN AccDigits(Tail(ds), h % Half, l % Half, wrapped \/ h >= Half)

\* the int whose 32-bit two's complement pattern is (hi, lo)
ToInt(hi, lo) == IF hi >= Half \div 2 THEN (hi - Half) * Half + lo ELSE hi * Half + lo

RECURSIVE SkipSpace(_, _)
SkipSpace(s, q) == IF isspace(At(s, q)) THEN SkipSpace(s, q + 1) ELSE q

\* the end of atoi: a is the value of the digits, neg the sign read
atoiValue(a, neg) ==
    [v |-> IF neg /\ ~(a.hi = Half \div 2 /\ a.lo = 0)
           THEN 0 - ToInt(a.hi, a.lo) ELSE ToInt(a.hi, a.lo),
     ovf |-> a.wrapped \/ (a.hi >= Half \div 2 /\ ~(neg /\ a.hi = Half \div 2 /\ a.lo = 0))]

\* atoi once the white space is skipped: the sign is at q0, the digits at q1
atoiDigits(s, q0, q1) ==
    atoiValue(AccDigits(SubSeq(s, q1, DigitRun(s, q1) - 1), 0, 0, FALSE), At(s, q0) = "-")

atoiSign(s, q0) == atoiDigits(s, q0, IF At(s, q0) \in {"-", "+"} THEN q0 + 1 ELSE q0)

\* atoi: skip white space, optional sign, digits.  ovf marks a value that an
\* int cannot represent, which the C standard leaves undefined; v is then the
\* low 32 bits of the value
atoi(s) == atoiSign(s, SkipSpace(s, 1))

RECURSIVE NormD(_, _)
\* m * 10^e with the trailing zeros of m moved into e
NormD(m, e) ==
    IF m = 0 THEN ZeroD
    ELSE IF m % 10 = 0 THEN NormD(m \div 10, e + 1)
    ELSE [m |-> m, e |-> e]

\* the value of atof: the digits ds with nfrac of them after the point, the
\* exponent ex, the signs
atofValue(ds, nfrac, ex, neg, eneg) ==
    NormD(IF neg THEN 0 - DigitsVal(ds, 0) ELSE DigitsVal(ds, 0),
          (IF eneg THEN 0 - ex ELSE ex) - nfrac)

\* atof from the exponent on: q3 is the position after the mantissa, q4 the
\* position of the exponent's digits when hasExp
atofExp(s, ds, nfrac, q3, hasExp, q4) ==
    atofValue(ds, nfrac,
              IF hasExp THEN DigitsVal(SubSeq(s, q4, DigitRun(s, q4) - 1), 0) ELSE 0,
              At(s, 1) = "-", hasExp /\ At(s, q3 + 1) = "-")

atofMantissa(s, ds, nfrac, q3) ==
    atofExp(s, ds, nfrac, q3,
            At(s, q3) \in {"e", "E"} /\
              (isdigit(At(s, q3 + 1)) \/
               (At(s, q3 + 1) \in {"+", "-"} /\ isdigit(At(s, q3 + 2)))),
            IF At(s, q3 + 1) \in {"+", "-"} THEN q3 + 2 ELSE q3 + 1)

\* atof from the fraction on: the integer digits are s[q1..q2)
atofFrac(s, q1, q2, q3) ==
    atofMantissa(s, SubSeq(s, q1, q2 - 1) \o SubSeq(s, q2 + 1, q3 - 1),
                 IF q3 > q2 THEN q3 - q2 - 1 ELSE 0, q3)

atofInt(s, q1, q2) ==
    atofFrac(s, q1, q2, IF At(s, q2) = "." THEN DigitRun(s, q2 + 1) ELSE q2)

\* atof on a span: sign, digits, fraction, exponent
atof(s) ==
    IF At(s, 1) \in {"-", "+"} THEN atofInt(s, 2, DigitRun(s, 2))
    ELSE atofInt(s, 1, DigitRun(s, 1))

(***************************************************************************)
(* Parsing primitives.  A cursor function takes the buffer s and a         *)
(* position q and returns the new position (with what it read).            *)
(***************************************************************************)
RECURSIVE parseSpaces(_, _)
parseSpaces(s, q) == IF At(s, q) \in {SP, TAB} THEN parseSpaces(s, q + 1) ELSE q

parseNewLine(s, q, ln) ==
    IF At(s, q) = NL THEN [p |-> q + 1, line |-> ln + 1] ELSE [p |-> q, line |-> ln]

RECURSIVE SpaceRun(_, _)
SpaceRun(s, q) == IF At(s, q) = SP THEN SpaceRun(s, q + 1) ELSE q

parseIndent(s, q) == [p |-> SpaceRun(s, q), indent |-> (SpaceRun(s, q) - q) \div 2]

RECURSIVE KeyScan(_, _)
KeyScan(s, q) ==
    IF At(s, q) \notin {NUL, ":", "[", "{", NL} THEN KeyScan(s, q + 1) ELSE q

RECURSIVE TrimEnd(_, _, _)
\* the end (exclusive) of s[start..end) once trailing white space is dropped
TrimEnd(s, start, end) ==
    IF end > start /\ isspace(At(s, end - 1)) THEN TrimEnd(s, start, end - 1) ELSE end

RECURSIVE TrimStart(_, _, _)
TrimStart(s, start, end) ==
    IF start < end /\ isspace(At(s, start)) THEN TrimStart(s, start + 1, end) ELSE start

\* parseKey once the scan has stopped at stop and the trimmed key ends at end
parseKeyResult(s, q, stop, end) ==
    [p |-> stop, key |-> SubSeq(s, q, end - 1), len |-> end - q]

parseKey(s, q) == parseKeyResult(s, q, KeyScan(s, q), TrimEnd(s, q, KeyScan(s, q)))

\* parseArraySize after '[': n is atoi of the text at q1, q2 the position
\* after the digits
parseArraySizeResult(s, q1, n, q2) ==
    [p |-> IF At(s, q2) = "]" THEN q2 + 1 ELSE q2,
     size |-> IF isdigit(At(s, q1)) THEN n.v ELSE -1,
     ovf |-> isdigit(At(s, q1)) /\ n.ovf]

parseArraySize(s, q) ==
    IF At(s, q) # "[" THEN [p |-> q, size |-> -1, ovf |-> FALSE]
    ELSE parseArraySizeResult(s, q + 1, atoi(SubSeq(s, q + 1, Len(s))), DigitRun(s, q + 1))

RECURSIVE CountCommas(_, _, _)
\* first pass of parseTableColumns: 1 + the commas before '}' or the end
CountCommas(s, q, count) ==
    IF At(s, q) \in {NUL, "}"} THEN count
    ELSE CountCommas(s, q + 1, IF At(s, q) = "," THEN count + 1 ELSE count)

RECURSIVE ColScan(_, _)
ColScan(s, q) == IF At(s, q) \notin {NUL, ",", "}"} THEN ColScan(s, q + 1) ELSE q

\* the position after the column name that ends at e
ColNext(s, e) == IF At(s, e) = "," THEN e + 1 ELSE e

RECURSIVE ColLoop(_, _, _)
\* second pass: the names extracted so far are cols; returns [p, cols]
ColLoop(s, q, cols) ==
    IF At(s, q) \in {NUL, "}"} THEN [p |-> q, cols |-> cols]
    ELSE ColLoop(s, ColNext(s, ColScan(s, q)), Append(cols, SubSeq(s, q, ColScan(s, q) - 1)))

\* columns is the array of count slots; the slots after the first init ones
\* were not reached by the second pass and stay uninitialised
parseTableColumnsResult(s, count, r) ==
    [p |-> IF At(s, r.p) = "}" THEN r.p + 1 ELSE r.p,
     columns |-> [k \in 1..count |-> IF k <= Len(r.cols) THEN r.cols[k] ELSE NoStr],
     init |-> Len(r.cols),
     col_count |-> count, isnull |-> FALSE]

parseTableColumns(s, q) ==
    IF At(s, q) # "{" THEN [p |-> q, columns |-> <<>>, init |-> 0, col_count |-> 0, isnull |-> TRUE]
    ELSE parseTableColumnsResult(s, CountCommas(s, q + 1, 1), ColLoop(s, q + 1, <<>>))

\* isNumber from the exponent on: i2 is the position after the mantissa, i3
\* the position of the exponent's digits when hasE
isNumberExp(s, len, isfloat, i2, hasE, i3) ==
    IF hasE /\ (i3 > len \/ ~isdigit(At(s, i3))) THEN [ok |-> FALSE, is_float |-> TRUE]
    ELSE [ok |-> (IF hasE THEN DigitRun(s, i3) ELSE i2) = len + 1, is_float |-> isfloat \/ hasE]

isNumberMantissa(s, len, isfloat, i2) ==
    isNumberExp(s, len, isfloat, i2, i2 <= len /\ At(s, i2) \in {"e", "E"},
                IF i2 + 1 <= len /\ At(s, i2 + 1) \in {"+", "-"} THEN i2 + 2 ELSE i2 + 1)

\* isNumber from the decimal point on: i1 is the position after the integer part
isNumberFrac(s, len, i1) ==
    IF i1 <= len /\ At(s, i1) = "."
    THEN IF i1 + 1 > len \/ ~isdigit(At(s, i1 + 1)) THEN [ok |-> FALSE, is_float |-> TRUE]
         ELSE isNumberMantissa(s, len, TRUE, DigitRun(s, i1 + 1))
    ELSE isNumberMantissa(s, len, FALSE, i1)

isNumberInt(s, len, i0) ==
    IF i0 > len \/ ~isdigit(At(s, i0)) THEN [ok |-> FALSE, is_float |-> FALSE]
    ELSE isNumberFrac(s, len, DigitRun(s, i0))

isNumber(s) ==
    IF Len(s) = 0 THEN [ok |-> FALSE, is_float |-> FALSE]
    ELSE isNumberInt(s, Len(s), IF At(s, 1) \in {"-", "+"} THEN 2 ELSE 1)

\* the number branch of parseValue
numberOfSpan(span, num) ==
    IF num.is_float THEN [obj |-> newDoubleObj(atof(span)), ovf |-> FALSE]
    ELSE [obj |-> newIntObj(atoi(span).v), ovf |-> atoi(span).ovf]

\* the object parseValue makes of the trimmed span it has cut out
\* (the span's length is Len(span)); ovf marks an atoi overflow
valueOfSpan(span) ==
    IF Len(span) = 0 THEN [obj |-> newNullObj, ovf |-> FALSE]
    ELSE IF Len(span) >= 2 /\ span[1] = "\"" /\ span[Len(span)] = "\""
         THEN [obj |-> newStringObj(SubSeq(span, 2, Len(span) - 1)), ovf |-> FALSE]
    ELSE IF span = <<"t", "r", "u", "e">> THEN [obj |-> newBoolObj(1), ovf |-> FALSE]
    ELSE IF span = <<"f", "a", "l", "s", "e">> THEN [obj |-> newBoolObj(0), ovf |-> FALSE]
    ELSE IF span = <<"n", "u", "l", "l">> THEN [obj |-> newNullObj, ovf |-> FALSE]
    ELSE IF isNumber(span).ok /\ Len(span) < BufSize THEN numberOfSpan(span, isNumber(span))
    ELSE [obj |-> newStringObj(span), ovf |-> FALSE]

RECURSIVE ValueScan(_, _)
ValueScan(s, q) == IF At(s, q) \notin {NUL, NL, ","} THEN ValueScan(s, q + 1) ELSE q

(***************************************************************************)
(* A parser context c is [p, line, heap, ub, res, stack, stack_size]: the  *)
(* cursor, the line counter, the objects allocated so far, whether         *)
(* undefined behaviour has been executed, the value the last call          *)
(* returned, and the indent stack of parse.                                *)
(***************************************************************************)
\* parseValue returning the object v it made of the span that ended at stop
parseValueResult(c, stop, v) ==
    [c EXCEPT !.p = stop, !.heap = Append(c.heap, v.obj),
              !.ub = c.ub \/ v.ovf, !.res = Len(c.heap) + 1]

\* parseValue once the span is trimmed to s[start..end)
parseValueSpan(s, c, stop, start, end) ==
    parseValueResult(c, stop, valueOfSpan(SubSeq(s, start, end - 1)))

parseValueTrim(s, c, stop, start) ==
    parseValueSpan(s, c, stop, start, TrimEnd(s, start, stop))

parseValueScan(s, c, q0, stop) == parseValueTrim(s, c, stop, TrimStart(s, q0, stop))

\* parseValue after parseSpaces has moved the cursor to q0
parseValueAt(s, c, q0) ==
    IF At(s, q0) \in {NL, NUL} THEN [c EXCEPT !.p = q0, !.res = NULL]
    ELSE parseValueScan(s, c, q0, ValueScan(s, q0))

parseValue(s, c) == parseValueAt(s, c, parseSpaces(s, c.p))

\* the push of parseListValues: v is the context parseValue returned
\* ListPushItem storing the item in two slots
ListPushItemTwice(v, arr) ==
    IF v.res # NULL
    THEN [v EXCEPT !.heap[arr] = listPush(listPush(v.heap[arr], v.res), v.res)]
    ELSE v

ListPushItem(v, arr) ==
    IF v.res # NULL THEN [v EXCEPT !.heap[arr] = listPush(v.heap[arr], v.res)] ELSE v

RECURSIVE ListLoop(_, _, _)

\* ListStep leaving the loop at the first separator
ListStepStop(s, c, arr) == c

\* the end of one round of the loop of parseListValues
ListStep(s, c, arr) ==
    IF At(s, c.p) = "," THEN ListLoop(s, [c EXCEPT !.p = c.p + 1], arr) ELSE c

\* the loop of parseListValues; arr is the pointer to the list being filled
ListLoop(s, c, arr) ==
    IF At(s, c.p) \in {NUL, NL} THEN c
    ELSE ListStep(s, ListPushItem(parseValue(s, c), arr), arr)

parseListValues(s, c) ==
    [ListLoop(s, [c EXCEPT !.heap = Append(c.heap, newListObj)], Len(c.heap) + 1)
        EXCEPT !.res = Len(c.heap) + 1]

\* what strcpy makes of an uninitialised column pointer
Garbage == <<"GARBAGE">>

\* LinkColumn giving every value the name of the first column
LinkColumnFirst(v, cols, col, rowObj, lastProp) ==
    IF v.res = NULL THEN v
    ELSE [v EXCEPT !.heap[v.res].key = cols.columns[1],
                   !.heap[v.res].indent = 1,
                   !.heap[IF lastProp = NULL THEN rowObj ELSE lastProp] =
                       IF lastProp = NULL THEN [@ EXCEPT !.child = v.res] ELSE [@ EXCEPT !.next = v.res]]

\* the value parseValue returned in v gets column col's name as its key and
\* is linked into the row's property list
LinkColumn(v, cols, col, rowObj, lastProp) ==
    IF v.res = NULL THEN v
    ELSE [v EXCEPT !.heap[v.res].key = IF col + 1 > cols.init THEN Garbage ELSE cols.columns[col + 1],
                   !.heap[v.res].indent = 1,
                   !.heap[IF lastProp = NULL THEN rowObj ELSE lastProp] =
                       IF lastProp = NULL THEN [@ EXCEPT !.child = v.res] ELSE [@ EXCEPT !.next = v.res],
                   !.ub = v.ub \/ col + 1 > cols.init]

\* the comma between columns (but not after the last one)
SkipColumnComma(s, c, cols, col) ==
    IF col < cols.col_count - 1 /\ At(s, c.p) = "," THEN [c EXCEPT !.p = c.p + 1] ELSE c

RECURSIVE ColumnLoop(_, _, _, _, _, _)

\* one round of the column loop, v being what parseValue returned
ColumnStep(s, v, cols, col, rowObj, lastProp) ==
    ColumnLoop(s, SkipColumnComma(s, LinkColumn(v, cols, col, rowObj, lastProp), cols, col),
               cols, col + 1, rowObj, IF v.res = NULL THEN lastProp ELSE v.res)

\* the column loop of parseTableRows for one row; cols is the parsed header
ColumnLoop(s, c, cols, col, rowObj, lastProp) ==
    IF col >= cols.col_count THEN c
    ELSE ColumnStep(s, parseValue(s, c), cols, col, rowObj, lastProp)

\* the row object is made, filled by the column loop and pushed on the table
RowObject(s, c, cols, table) ==
    [ColumnLoop(s, [c EXCEPT !.heap = Append(c.heap, newObject(KV_OBJ))], cols, 0,
                Len(c.heap) + 1, NULL)
        EXCEPT !.heap[table] = listPush(@, Len(c.heap) + 1)]

RECURSIVE RowLoop(_, _, _, _, _, _)

\* one round of the row loop after parseNewLine and parseSpaces
RowStep(s, c, cols, expected_rows, row, table) ==
    IF At(s, c.p) \in {NL, NUL} THEN c
    ELSE RowLoop(s, RowObject(s, c, cols, table), cols, expected_rows, row + 1, table)

\* the cursor and line counter after parseNewLine and parseSpaces
RowStart(s, c, nl) == [c EXCEPT !.p = parseSpaces(s, nl.p), !.line = nl.line]

\* the row loop of parseTableRows; table is the pointer to the list
RowLoop(s, c, cols, expected_rows, row, table) ==
    IF row >= expected_rows THEN c
    ELSE RowStep(s, RowStart(s, c, parseNewLine(s, c.p, c.line)), cols, expected_rows, row, table)

parseTableRows(s, c, cols, expected_rows) ==
    [RowLoop(s, [c EXCEPT !.heap = Append(c.heap, newListObj)], cols, expected_rows, 0,
             Len(c.heap) + 1)
        EXCEPT !.res = Len(c.heap) + 1]

\* isCommentOrEmpty not knowing the comment sign
isCommentOrEmptyNoHash(s, q) ==
    [p |-> parseSpaces(s, q), res |-> At(s, parseSpaces(s, q)) \in {NL, NUL}]

isCommentOrEmpty(s, q) ==
    [p |-> parseSpaces(s, q), res |-> At(s, parseSpaces(s, q)) \in {"#", NL, NUL}]

RECURSIVE LineEnd(_, _)
LineEnd(s, q) == IF At(s, q) \notin {NUL, NL} THEN LineEnd(s, q + 1) ELSE q

\* skipLine leaving the cursor where it is
skipLineStuck(s, q, ln) == [p |-> q, line |-> ln]

skipLine(s, q, ln) == parseNewLine(s, LineEnd(s, q), ln)

(***************************************************************************)
(* Main parsing logic                                                      *)
(***************************************************************************)
RECURSIVE LastSibling(_, _)
LastSibling(h, n) == IF h[n].next # NULL THEN LastSibling(h, h[n].next) ELSE n

\* the cursor and line counter of c set from a [p, line] record
Moved(c, r) == [c EXCEPT !.p = r.p, !.line = r.line]

\* lines 748-754: an object that has no value is pushed on the stack
pushStack(c, prop, size, push) ==
    [c EXCEPT !.stack = IF push THEN [c.stack EXCEPT ![size + 1] = prop] ELSE c.stack,
              !.stack_size = IF push THEN size + 1 ELSE size]

\* lines 734-746: prop is appended to the child list of the top of the stack
appendChild(c, prop, parent) ==
    IF c.heap[parent].child = NULL
    THEN [c EXCEPT !.heap[parent].child = prop]
    ELSE [c EXCEPT !.heap[LastSibling(c.heap, c.heap[parent].child)].next = prop]

\* lines 727-754 with every property pushed, whatever its kind
attachAtAny(c, prop, has_value, size) ==
    pushStack(appendChild(c, prop, c.stack[size]), prop, size, size < StackCap)

\* lines 727-754 with the stack popped to size
attachAt(c, prop, has_value, size) ==
    pushStack(appendChild(c, prop, c.stack[size]), prop, size,
              ~has_value /\ c.heap[prop].kvtype = KV_OBJ /\ size < StackCap)

\* lines 721-754 of parse: key and indent, pop the stack, append to the
\* parent's child list, push an object that has no value
attach(c, prop, key, indent, has_value) ==
    attachAt([c EXCEPT !.heap[prop].key = key, !.heap[prop].indent = indent], prop, has_value,
             IF c.stack_size > indent + 1 THEN indent + 1 ELSE c.stack_size)

\* lines 715-718: an empty value makes a nested object
madeObject(v) ==
    IF v.res = NULL
    THEN [v EXCEPT !.heap = Append(v.heap, newObject(KV_OBJ)), !.res = Len(v.heap) + 1]
    ELSE v

\* lines 721-756 for the value v that was parsed
iterationAttach(s, v, made, key, indent) ==
    [br |-> "", st |-> attach(made, made.res, key, indent, v.res # NULL)]

\* the last statement of the loop body
iterationEnd(s, r, br) == [br |-> br, st |-> Moved(r.st, parseNewLine(s, r.st.p, r.st.line))]

\* lines 692-719: the colon is skipped and the value parsed by dispatch.
\* colub: the clean-up loops free every one of the col_count column slots,
\* also a slot parseTableColumns left uninitialised
iterationValue(s, c, k, ind, as, cols) ==
    IF ~cols.isnull
    THEN iterationEnd(s, iterationAttach(s, parseTableRows(s, c, cols, as.size),
                                         parseTableRows(s, c, cols, as.size), k.key, ind.indent),
                      "table")
    ELSE IF as.size >= 0
    THEN iterationEnd(s, iterationAttach(s, parseListValues(s, c), parseListValues(s, c),
                                         k.key, ind.indent), "list")
    ELSE iterationEnd(s, iterationAttach(s, parseValue(s, c), madeObject(parseValue(s, c)),
                                         k.key, ind.indent), "value")

\* lines 679-692: the test for the colon
iterationColon(s, st, k, ind, as, cols) ==
    IF At(s, cols.p) # ":"
    THEN [br |-> "nocolon",
          st |-> [Moved(st, skipLine(s, cols.p, st.line))
                     EXCEPT !.ub = st.ub \/ as.ovf \/ cols.init < cols.col_count]]
    ELSE iterationValue(s, [st EXCEPT !.p = cols.p + 1,
                                      !.ub = st.ub \/ as.ovf \/ cols.init < cols.col_count],
                        k, ind, as, cols)

\* lines 669-677: the array size and the table columns
iterationHeader(s, st, k, ind, as) ==
    iterationColon(s, st, k, ind, as, parseTableColumns(s, as.p))

\* lines 661-670: the key
iterationKey(s, st, ind, k) ==
    IF k.len = 0 THEN [br |-> "emptykey", st |-> Moved(st, skipLine(s, k.p, st.line))]
    ELSE iterationHeader(s, st, k, ind, parseArraySize(s, k.p))

iterationIndent(s, st, ind) == iterationKey(s, st, ind, parseKey(s, ind.p))

\* lines 651-659: ce is what isCommentOrEmpty found
\* a loop of parse that takes a comment or blank line for a line at level 0
\* and pops the stack down to root
iterationCommentPopped(s, st, ce) ==
    IF ce.res
    THEN [br |-> "skip",
          st |-> [Moved(st, skipLine(s, ce.p, st.line)) EXCEPT !.stack_size = 1]]
    ELSE iterationIndent(s, st, parseIndent(s, ce.p))

iterationComment(s, st, ce) ==
    IF ce.res
    THEN [br |-> "skip",
          st |-> IF At(s, ce.p) \in {"#", NL} THEN Moved(st, skipLine(s, ce.p, st.line))
                 ELSE [st EXCEPT !.p = ce.p]]
    ELSE iterationIndent(s, st, parseIndent(s, ce.p))

\* one iteration of the while loop of parse; br names the branch taken
iteration(s, st) == iterationComment(s, st, isCommentOrEmpty(s, st.p))

\* the branch the iteration at q takes, which the head of the line decides:
\* the tests of lines 651, 664, 680, 698 and 706 without the parsing of the
\* value
iterationBranch(s, q) ==
    LET ce == isCommentOrEmpty(s, q)
        k == parseKey(s, parseIndent(s, ce.p).p)
        as == parseArraySize(s, k.p)
        cols == parseTableColumns(s, as.p)
    IN  IF ce.res THEN "skip"
        ELSE IF k.len = 0 THEN "emptykey"
        ELSE IF At(s, cols.p) # ":" THEN "nocolon"
        ELSE IF ~cols.isnull THEN "table"
        ELSE IF as.size >= 0 THEN "list"
        ELSE "value"

\* the state parse starts from: the root object and the stack holding it
parseInit ==
    [p |-> 1, line |-> 1, heap |-> <<newObject(KV_OBJ)>>, ub |-> FALSE, res |-> NULL,
     stack |-> [k \in 1..StackCap |-> IF k = 1 THEN 1 ELSE UNINIT], stack_size |-> 1]

RECURSIVE parseLoop(_, _)
parseLoop(s, st) == IF At(s, st.p) = NUL THEN st ELSE parseLoop(s, iteration(s, st).st)

\* parse(source): the final parse state; the root it returns is object 1
parse(s) == parseLoop(s, parseInit)

(***************************************************************************)
(* Query and access functions                                              *)
(***************************************************************************)
RECURSIVE TokScan(_, _)
TokScan(s, q) == IF At(s, q) \notin {NUL, "."} THEN TokScan(s, q + 1) ELSE q

RECURSIVE DotRun(_, _)
DotRun(s, q) == IF At(s, q) = "." THEN DotRun(s, q + 1) ELSE q

RECURSIVE strtok(_, _)
\* the tokens strtok(.., ".") hands out from position q on: the maximal
\* runs of characters other than '.'
strtok(s, q) ==
    LET b == DotRun(s, q)
        e == TokScan(s, b)
    IN IF At(s, b) = NUL THEN <<>> ELSE <<SubSeq(s, b, e - 1)>> \o strtok(s, e)

RECURSIVE FindChildLast(_, _, _)
\* FindChild going on after a match: the last child whose key is token
FindChildLast(h, child, token) ==
    IF child = NULL THEN NULL
    ELSE IF FindChildLast(h, h[child].next, token) # NULL
         THEN FindChildLast(h, h[child].next, token)
    ELSE IF h[child].key # NoStr /\ h[child].key = token THEN child
    ELSE NULL

RECURSIVE FindChild(_, _, _)
\* the inner while loop of TOONc_get: the first of child, child->next, ...
\* whose key is token
FindChild(h, child, token) ==
    IF child = NULL THEN NULL
    ELSE IF h[child].key # NoStr /\ h[child].key = token THEN child
    ELSE FindChild(h, h[child].next, token)

RECURSIVE GetLoop(_, _, _)
GetLoop(h, current, tokens) ==
    IF tokens = <<>> THEN current
    ELSE LET found == FindChild(h, h[current].child, Head(tokens))
         IN IF found = NULL THEN NULL ELSE GetLoop(h, found, Tail(tokens))

\* TOONc_get(root, path); a null path is NoStr
TOONc_get(h, r, path) ==
    IF r = NULL \/ path = NoStr THEN NULL ELSE GetLoop(h, r, strtok(path, 1))

TOON_IS_LIST(h, obj) == obj # NULL /\ h[obj].kvtype = KV_LIST

\* a pointer value read from memory that holds no object pointer
BadPtr == -2

\* TOONc_getArrayItem(arr, index): the set of results the call can have.
\* oob tells that items[index] was read outside [0, len): an uninitialised
\* slot of the capacity, the slot past the array, or slot 0 of a null array;
\* such a read yields any pointer value or stops the program
TOONc_getArrayItem(h, arr, index) ==
    IF ~TOON_IS_LIST(h, arr) THEN {[ret |-> NULL, oob |-> FALSE, crash |-> FALSE]}
    ELSE IF index > h[arr].len \/ index < 0 THEN {[ret |-> NULL, oob |-> FALSE, crash |-> FALSE]}
    ELSE IF index < h[arr].len THEN {[ret |-> h[arr].items[index + 1], oob |-> FALSE, crash |-> FALSE]}
    ELSE {[ret |-> NULL, oob |-> TRUE, crash |-> FALSE],
          [ret |-> BadPtr, oob |-> TRUE, crash |-> FALSE],
          [ret |-> NULL, oob |-> TRUE, crash |-> TRUE]}

\* (size_t)-1, the largest size_t; it stands for 2^64 - 1
SIZE_MAX == -1

TOONc_getArrayLength(h, arr) == IF ~TOON_IS_LIST(h, arr) THEN SIZE_MAX ELSE h[arr].len

(***************************************************************************)
(* Releasing a tree.  A release state f is [heap, obj, key, str, items,    *)
(* depth, maxdepth]: the objects (TOONc_free clears next links), how often *)
(* each object, key, string and item array has been handed to tfree, the   *)
(* number of TOONc_free invocations that are active and the largest number *)
(* that were active at once.                                               *)
(***************************************************************************)
FreeInit(h) ==
    [heap |-> h,
     obj |-> [n \in 1..Len(h) |-> 0], key |-> [n \in 1..Len(h) |-> 0],
     str |-> [n \in 1..Len(h) |-> 0], items |-> [n \in 1..Len(h) |-> 0],
     depth |-> 0, maxdepth |-> 0]

\* an invocation of TOONc_free for a non-null object begins
freeEnter(f) ==
    [f EXCEPT !.depth = f.depth + 1,
              !.maxdepth = IF f.depth + 1 > f.maxdepth THEN f.depth + 1 ELSE f.maxdepth]

\* tfree(obj->key) when the key is present
freeKey(f, obj) == IF f.heap[obj].key # NoStr THEN [f EXCEPT !.key[obj] = @ + 1] ELSE f

\* the final tfree(obj); the invocation ends
freeLeave(f, obj) == [f EXCEPT !.obj[obj] = @ + 1, !.depth = f.depth - 1]

RECURSIVE TOONc_free(_, _)

RECURSIVE freeSiblingsChained(_, _)
\* the sibling loop calling TOONc_free without clearing the next link
freeSiblingsChained(f, current) ==
    IF current = NULL THEN f
    ELSE freeSiblingsChained(TOONc_free(f, current), f.heap[current].next)

\* the siblings left to the recursion of TOONc_free on obj->next
freeSiblingsRecursive(f, current) == IF current = NULL THEN f ELSE TOONc_free(f, current)

RECURSIVE freeSiblings(_, _)
\* the while loop over the siblings: the next link is read and cleared
\* before current is freed
freeSiblings(f, current) ==
    IF current = NULL THEN f
    ELSE freeSiblings(TOONc_free([f EXCEPT !.heap[current].next = NULL], current),
                      f.heap[current].next)

freeChild(f, obj) == IF f.heap[obj].child # NULL THEN TOONc_free(f, f.heap[obj].child) ELSE f

RECURSIVE freeItems(_, _, _)
\* the for loop over array.items[i], i < array.len
freeItems(f, obj, i) ==
    IF i >= f.heap[obj].len THEN f
    ELSE freeItems(TOONc_free(f, f.heap[obj].items[i + 1]), obj, i + 1)

\* the switch on kvtype
freeData(f, obj) ==
    IF f.heap[obj].kvtype = KV_STRING
    THEN (IF f.heap[obj].str # NoStr THEN [f EXCEPT !.str[obj] = @ + 1] ELSE f)
    ELSE IF f.heap[obj].kvtype = KV_LIST /\ f.heap[obj].items # <<>>
    THEN [freeItems(f, obj, 0) EXCEPT !.items[obj] = @ + 1]
    ELSE f

TOONc_free(f, obj) ==
    IF obj = NULL THEN f
    ELSE freeLeave(freeData(freeKey(freeChild(freeSiblings(freeEnter(f), f.heap[obj].next),
                                              obj), obj), obj), obj)

(***************************************************************************)
(* Writing a tree as JSON.  What TOONc_toJSON hands to fprintf is kept as  *)
(* a sequence of characters.                                               *)
(***************************************************************************)
RECURSIVE Decimal(_)
\* the decimal digits of n >= 0, as %d writes them
Decimal(n) ==
    IF n < 10 THEN <<Digits[n + 1]>> ELSE Decimal(n \div 10) \o <<Digits[(n % 10) + 1]>>

\* fprintf(fp, "%d", i)
fmtD(i) == IF i < 0 THEN <<"-">> \o Decimal(0 - i) ELSE Decimal(i)

\* the two spaces written depth times
jsonIndent(depth) == [j \in 1..(2 * depth) |-> SP]

\* fprintf(fp, "\"%s\": ", obj->key) when the node has a key
jsonKey(h, obj) ==
    IF h[obj].key # NoStr THEN <<"\"">> \o h[obj].key \o <<"\"", ":", SP>> ELSE <<>>

RECURSIVE TOONc_toJSON(_, _, _)
RECURSIVE jsonItems(_, _, _, _)
\* the loop over the items of the list obj from index i (0-based) on
jsonItems(h, obj, i, depth) ==
    IF i < h[obj].len
    THEN TOONc_toJSON(h, h[obj].items[i + 1], depth + 1)
         \o (IF i < h[obj].len - 1 THEN <<",">> ELSE <<>>) \o <<NL>>
         \o jsonItems(h, obj, i + 1, depth)
    ELSE <<>>

RECURSIVE jsonChildrenComma(_, _, _)
\* the child loop writing a comma after every child, the last one included
jsonChildrenComma(h, child, depth) ==
    IF child # NULL
    THEN TOONc_toJSON(h, child, depth + 1) \o <<",">> \o <<NL>>
         \o jsonChildrenComma(h, h[child].next, depth)
    ELSE <<>>

RECURSIVE jsonChildren(_, _, _)
\* the loop over the child list from child on
jsonChildren(h, child, depth) ==
    IF child # NULL
    THEN TOONc_toJSON(h, child, depth + 1)
         \o (IF h[child].next # NULL THEN <<",">> ELSE <<>>) \o <<NL>>
         \o jsonChildren(h, h[child].next, depth)
    ELSE <<>>

\* the text written for the value of obj; the digits that %f writes for a
\* Double are not worked out and stand as one token
jsonValue(h, obj, depth) ==
    CASE h[obj].kvtype = KV_STRING -> <<"\"">> \o h[obj].str \o <<"\"">>
      [] h[obj].kvtype = KV_INT -> fmtD(h[obj].i)
      [] h[obj].kvtype = KV_DOUBLE -> <<"%f">>
      [] h[obj].kvtype = KV_BOOL ->
            IF h[obj].boolean # 0 THEN <<"t", "r", "u", "e">> ELSE <<"f", "a", "l", "s", "e">>
      [] h[obj].kvtype = KV_NULL -> <<"n", "u", "l", "l">>
      [] h[obj].kvtype = KV_LIST ->
            <<"[", NL>> \o jsonItems(h, obj, 0, depth) \o jsonIndent(depth) \o <<"]">>
      [] h[obj].kvtype = KV_OBJ ->
            <<"{", NL>> \o jsonChildren(h, h[obj].child, depth) \o jsonIndent(depth) \o <<"}">>
      [] OTHER -> <<>>

TOONc_toJSON(h, obj, depth) ==
    IF obj = NULL THEN <<>>
    ELSE jsonIndent(depth) \o jsonKey(h, obj) \o jsonValue(h, obj, depth)

(***************************************************************************)
(* Inputs.  An input is a record holding the text handed to the parser     *)
(* and the pieces the text was put together from.                          *)
(***************************************************************************)
MaxLines == 3
MaxAfter == 2
MaxBlankLen == 4
MaxValLen == 3
MaxRows == 2
MaxCols == 2
MaxCells == 3
MaxNodes == 4
MaxIndex == 4
MaxPush == 9
MaxSpaces == 4
MaxHdrLen == 3
MaxNumLen == 4

\* the sequences over S of length at most n
SeqsUpTo(S, n) == UNION {[1..k -> S] : k \in 0..n}

RECURSIVE JoinWith(_, _)
\* the members of ss with sep between them
JoinWith(ss, sep) ==
    IF ss = <<>> THEN <<>>
    ELSE IF Len(ss) = 1 THEN ss[1]
    ELSE ss[1] \o sep \o JoinWith(Tail(ss), sep)

\* lines joined by newlines, the last one ended by a newline when nl
TextOf(lines, nl) == JoinWith(lines, <<NL>>) \o (IF nl /\ lines # <<>> THEN <<NL>> ELSE <<>>)

\* s without its k-th member
Without(ss, k) == [j \in 1..(Len(ss) - 1) |-> IF j < k THEN ss[j] ELSE ss[j + 1]]

\* property lines at indentation 0, 1 and 2, two of them with an empty value
NestPool ==
    {<<"a", ":">>,
     <<SP, SP, "b", ":", SP, "1">>,
     <<SP, SP, "a", ":">>,
     <<SP, SP, SP, SP, "b", ":", SP, "x">>,
     <<"b", ":", SP, "2">>}

\* the document of test_nested_objects reduced to the lines the spec quotes
NestedDoc ==
    <<<<"u", "s", "e", "r", ":">>,
      <<SP, SP, "n", "a", "m", "e", ":", SP, "A", "l", "i", "c", "e">>,
      <<SP, SP, "a", "d", "d", "r", "e", "s", "s", ":">>,
      <<SP, SP, SP, SP, "c", "i", "t", "y", ":", SP, "S", "p", "r", "i", "n", "g", "f", "i", "e", "l", "d">>>>

\* the document of test_nested_objects reduced to the block that is left
\* for a shallower line
DedentDoc ==
    <<<<"u", "s", "e", "r", ":">>,
      <<SP, SP, "a", "d", "d", "r", "e", "s", "s", ":">>,
      <<SP, SP, SP, SP, "c", "o", "o", "r", "d", "i", "n", "a", "t", "e", "s", ":">>,
      <<SP, SP, SP, SP, SP, SP, "l", "a", "t", ":", SP, "1">>,
      <<SP, SP, "p", "r", "e", "f", "e", "r", "e", "n", "c", "e", "s", ":">>,
      <<SP, SP, SP, SP, "t", "h", "e", "m", "e", ":", SP, "d", "a", "r", "k">>>>

\* a property line behind k spaces
IndentLine(k) == [j \in 1..k |-> SP] \o <<"a", ":", SP, "1">>

NestInputs ==
    {[fam |-> "nest", lines |-> ls, text |-> TextOf(ls, nl)] :
        ls \in (SeqsUpTo(NestPool, MaxLines) \cup {NestedDoc, DedentDoc}
                \cup {<<IndentLine(k)>> : k \in 0..MaxSpaces}),
        nl \in BOOLEAN}

\* test 6.4: a line without a colon between two valid lines
Valid1 == <<"v", "a", "l", "i", "d", ":", SP, "o", "k">>
Valid2 == <<"a", "n", "o", "t", "h", "e", "r", ":", SP, "v", "a", "l", "i", "d">>
Valid3 == <<"c", ":">>

\* lines with a key and no colon, or with an empty key; key is the key the
\* line was meant to set (empty when the line has none)
BadLines ==
    {[line |-> <<"n", "o", "_", "c", "o", "l", "o", "n">>, key |-> <<"n", "o", "_", "c", "o", "l", "o", "n">>],
     [line |-> <<"a", SP, "b">>, key |-> <<"a", SP, "b">>],
     [line |-> <<":", SP, "1">>, key |-> <<>>],
     [line |-> <<"[", "2", "]", ":", SP, "1">>, key |-> <<>>],
     [line |-> <<"k", "[", "2">>, key |-> <<"k">>],
     [line |-> <<"k", "[", "2", "]", SP, "1">>, key |-> <<"k">>],
     [line |-> <<"k", "{", "a">>, key |-> <<"k">>],
     [line |-> <<"k", "[", "1", "]", "{", "a", ",", "b", "}", SP, "x">>, key |-> <<"k">>]}

MalInputs ==
    {[fam |-> "mal", lines |-> before \o <<bad.line>> \o after, bad |-> Len(before) + 1,
      key |-> bad.key, text |-> TextOf(before \o <<bad.line>> \o after, TRUE)] :
        before \in SeqsUpTo({Valid1}, 1), bad \in BadLines,
        after \in SeqsUpTo({Valid2, Valid3}, MaxAfter)}

BlankChars == {SP, TAB, NL, "#", "a", ":"}

\* the start of the line position i of t lies on
LineStart(t, i) ==
    IF \E j \in 1..(i - 1) : t[j] = NL
    THEN 1 + CHOOSE j \in 1..(i - 1) : t[j] = NL /\ \A k \in (j + 1)..(i - 1) : t[k] # NL
    ELSE 1

\* t has only comment lines, blank lines and lines of spaces and tabs: every
\* other character comes after a '#' that opens its line
OnlyCommentsAndBlanks(t) ==
    \A i \in 1..Len(t) :
        t[i] \in {SP, TAB, NL} \/
        \E j \in LineStart(t, i)..i :
            t[j] = "#" /\ \A k \in LineStart(t, i)..(j - 1) : t[k] \in {SP, TAB}

BlankInputs ==
    {[fam |-> "blank", text |-> t] :
        t \in {u \in SeqsUpTo(BlankChars, MaxBlankLen) : OnlyCommentsAndBlanks(u)}}

\* the name the scalar lines give their property
KeyName == <<"k", "e", "y">>

\* the values test_basic_parsing and the format description list
ScalarLits ==
    {<<"1", "2", "3">>,
     <<"-", "4", "2">>,
     <<"-", "3", ".", "1", "4">>,
     <<"1", ".", "5", "e", "1", "0">>,
     <<"-", "2", ".", "5", "e", "-", "3">>,
     <<"t", "r", "u", "e">>,
     <<"f", "a", "l", "s", "e">>,
     <<"n", "u", "l", "l">>,
     <<"\"", "x", "\"">>,
     <<"\"", "\"">>,
     <<"h", "e", "l", "l", "o">>,
     <<"J", "o", "h", "n", SP, "D", "o", "e">>}

ValChars == {"1", "-", ".", "e", "a", SP, ",", "\""}

\* t neither starts nor ends with white space
Trimmed(t) == t = <<>> \/ (~isspace(t[1]) /\ ~isspace(t[Len(t)]))

\* a line "key:" lead v trail, v being the trimmed, non-empty text of the value
ScalarInputs ==
    {[fam |-> "scalar", v |-> v, text |-> KeyName \o <<":">> \o lead \o v \o trail] :
        v \in ScalarLits \cup {u \in SeqsUpTo(ValChars, MaxValLen) : u # <<>> /\ Trimmed(u)},
        lead \in {<<>>, <<SP>>},
        trail \in {<<>>, <<NL>>, <<SP, NL>>}}

\* the decimal digit of a number below 10
DigitChar(j) == Digits[j + 1]

\* the names of the columns: id, name, c3, c4, ...
ColName(j) ==
    IF j = 1 THEN <<"i", "d">>
    ELSE IF j = 2 THEN <<"n", "a", "m", "e">>
    ELSE <<"c", DigitChar(j)>>

FieldPool == {<<"1">>, <<"B", "o", "b">>}

\* the text of a tabular block: the header key[N]{cols}: with N the number of
\* rows, the row lines behind the indentation ind, the lines of tail
TableText(key, cols, rows, ind, tail, nl) ==
    TextOf(<<key \o <<"[", DigitChar(Len(rows)), "]", "{">> \o JoinWith(cols, <<",">>) \o <<"}", ":">>>>
           \o [i \in 1..Len(rows) |-> ind \o JoinWith(rows[i], <<",">>)] \o tail, nl)

TableInput(key, cols, rows, ind, tail, nl) ==
    [fam |-> "table", key |-> key, cols |-> cols, rows |-> rows,
     text |-> TableText(key, cols, rows, ind, tail, nl)]

\* the block of test_tabular_data the format description quotes
UsersTable ==
    TableInput(<<"u", "s", "e", "r", "s">>, <<ColName(1), ColName(2)>>,
               <<<<<<"1">>, <<"A", "l", "i", "c", "e">>>>, <<<<"2">>, <<"B", "o", "b">>>>>>, <<SP, SP>>, <<>>, TRUE)

\* the blocks of n rows of m fields
TableInputsOf(n, m) ==
    {TableInput(<<"t">>, [j \in 1..m |-> ColName(j)], rows, ind, tail, nl) :
        rows \in [1..n -> [1..m -> FieldPool]], nl \in BOOLEAN,
        ind \in {<<>>, <<SP, SP>>}, tail \in SeqsUpTo({<<"z", ":", SP, "1">>}, 1)}

TableInputs == UNION {TableInputsOf(n, m) : n \in 0..MaxRows, m \in 1..MaxCols}

CellPool == {<<"1">>, <<"x">>, <<"t", "r", "u", "e">>}

\* a line k[n]: cells; n is the declared size, which need not be the number
\* of cells
ListInputs ==
    {[fam |-> "list", key |-> <<"k">>, n |-> n, cells |-> cells,
      text |-> <<"k", "[", DigitChar(n), "]", ":">> \o (IF cells = <<>> THEN <<>> ELSE <<SP>>)
               \o JoinWith(cells, sep) \o end] :
        n \in 0..MaxCells, cells \in SeqsUpTo(CellPool, MaxCells),
        sep \in {<<",">>, <<",", SP>>}, end \in {<<>>, <<NL>>}}

\* a null argument: a null string for TOONc_parseString, a null FILE * for
\* TOONc_parseFile
NullInput == [fam |-> "null", text |-> NoStr]

\* the lines of test_comments_and_whitespace: properties, comment lines
\* (indented or not), empty lines and lines of spaces
CommentInputs ==
    {[fam |-> "comment", lines |-> ls, text |-> TextOf(ls, nl)] :
        ls \in SeqsUpTo({<<"k", "e", "y", "1", ":", SP, "v">>,
                         <<"p", ":">>,
                         <<"#", SP, "k", "e", "y", "2", ":", SP, "x">>,
                         <<"#">>,
                         <<SP, SP, "#", SP, "c">>,
                         <<SP, SP>>,
                         <<>>}, MaxLines),
        nl \in BOOLEAN}

\* the blocks of 1..MaxRows rows of k fields v under a header that declares
\* m > k columns
ShortRowInputs ==
    UNION {UNION {{[fam |-> "short", key |-> <<"t">>, cols |-> [j \in 1..m |-> ColName(j)],
                    rows |-> [i \in 1..n |-> [j \in 1..k |-> v]],
                    text |-> TableText(<<"t">>, [j \in 1..m |-> ColName(j)],
                                       [i \in 1..n |-> [j \in 1..k |-> v]], ind, <<>>, nl)] :
                      n \in 1..MaxRows, v \in FieldPool, nl \in BOOLEAN,
                      ind \in {<<>>, <<SP, SP>>}} :
                  m \in (k + 1)..(MaxCols + 1)} : k \in 1..MaxCols}

\* the blocks under a header t{cols}: without a declared count: the rows of
\* fields v, then the end of the input or a blank line and a further property
NoCountInputs ==
    {[fam |-> "nocount", key |-> <<"t">>, cols |-> [j \in 1..m |-> ColName(j)],
      rows |-> [i \in 1..n |-> [j \in 1..m |-> v]], tail |-> tail,
      text |-> TextOf(<<<<"t", "{">> \o JoinWith([j \in 1..m |-> ColName(j)], <<",">>) \o <<"}", ":">>>>
                      \o [i \in 1..n |-> ind \o JoinWith([j \in 1..m |-> v], <<",">>)] \o tail, nl)] :
        n \in 0..MaxRows, m \in 1..MaxCols, v \in FieldPool, nl \in BOOLEAN,
        ind \in {<<>>, <<SP, SP>>}, tail \in {<<>>, <<<<>>, <<"z", ":", SP, "1">>>>}}

\* the headers k[1]{h}: for the column lists h of commas, spaces and the
\* name a, and for the list id, name; closed ones are followed by a row of
\* as many fields as h has names, the others end with the input
HeaderInputs ==
    {[fam |-> "header", hdr |-> h, closed |-> closed,
      text |-> <<"k", "[", "1", "]", "{">> \o h \o
               (IF closed
                THEN <<"}", ":", NL, SP, SP>> \o
                     JoinWith([j \in 1..(1 + Cardinality({i \in 1..Len(h) : h[i] = ","})) |-> <<"1">>], <<",">>)
                     \o <<NL>>
                ELSE <<>>)] :
        h \in SeqsUpTo({"a", ",", SP}, MaxHdrLen) \cup {<<"i", "d", ",", SP, "n", "a", "m", "e">>},
        closed \in BOOLEAN}

\* the lines k[n]: c1,...,cn of two or more cells, each the text x or blank
BlankCellInputs ==
    {[fam |-> "cells", key |-> <<"k">>, cells |-> cells,
      text |-> <<"k", "[", DigitChar(Len(cells)), "]", ":", SP>> \o JoinWith(cells, <<",">>) \o end] :
        cells \in {c \in SeqsUpTo({<<>>, <<"x">>}, MaxCells) : Len(c) >= 2},
        end \in {<<>>, <<NL>>}}

\* the lines of a block t[N]{m columns}: with n row lines of k fields 1,
\* followed at once (no blank line) by the lines of tail
RowLines(N, m, n, k, tail) ==
    <<<<"t", "[", DigitChar(N), "]", "{">> \o JoinWith([j \in 1..m |-> ColName(j)], <<",">>) \o <<"}", ":">>>>
    \o [i \in 1..n |-> <<SP, SP>> \o JoinWith([j \in 1..k |-> <<"1">>], <<",">>)] \o tail

\* N need not be n and k need not be m
RowInputs ==
    {[fam |-> "rows", key |-> <<"t">>, cols |-> [j \in 1..m |-> ColName(j)],
      declared |-> N, n |-> n, k |-> k, tail |-> tail,
      lines |-> RowLines(N, m, n, k, tail), text |-> TextOf(RowLines(N, m, n, k, tail), TRUE)] :
        N \in 1..(MaxRows + 1), n \in 0..MaxRows, m \in 1..MaxCols, k \in 1..(MaxCols + 1),
        tail \in {<<>>, <<<<"p", ":", SP, "v">>>>, <<<<SP, SP, "p", ":", SP, "v">>>>}}

\* the lines key: v for the spans v of digits, signs, dots, exponent marks
\* and letters, for the spans the format description names, and for a span
\* of digits as long as the buffer parseValue copies a number into
NumberInputs ==
    {[fam |-> "num", v |-> v, text |-> KeyName \o <<":", SP>> \o v \o <<NL>>] :
        v \in (SeqsUpTo({"1", "-", ".", "e", "a"}, MaxNumLen) \ {<<>>})
              \cup {<<"2", ".", "1", ".", "0">>,
                    <<"1", "2", "a", "b">>,
                    <<"+", "5">>,
                    <<"1", "E", "5">>,
                    <<"-", "1", ".", "5", "e", "+", "3">>,
                    <<"1", "e", "-", "1">>,
                    [i \in 1..BufSize |-> "1"]}}

\* line k (from 0 on) of a document in which every line opens an object one
\* level deeper than the line before
DeepLine(k) == [j \in 1..(2 * k) |-> SP] \o <<"a", ":", NL>>

RECURSIVE DeepDoc(_)
DeepDoc(n) == IF n = 0 THEN <<>> ELSE DeepDoc(n - 1) \o DeepLine(n - 1)

\* documents nested deeper than the indent stack is long
DeepInputs ==
    {[fam |-> "deep", levels |-> n, text |-> DeepDoc(n)] : n \in {StackCap + 2}}

\* a table block and a list line, to be cut short
TableDoc == <<"t", "[", "2", "]", "{", "a", ",", "b", "}", ":", NL, SP, SP, "1", ",", "2", NL, SP, SP, "3", ",", "4", NL>>

ListDoc == <<"k", "[", "3", "]", ":", SP, "1", ",", "2", ",", "3", NL>>

\* truncated input: every proper prefix of the table block and of the list
\* line, among them an unterminated [, an unterminated {a,b and a header
\* whose rows are missing
TruncInputs ==
    UNION {{[fam |-> "trunc", whole |-> t, text |-> SubSeq(t, 1, k)] : k \in 1..(Len(t) - 1)} :
              t \in {TableDoc, ListDoc}}

Inputs ==
    TruncInputs \cup DeepInputs \cup NumberInputs \cup RowInputs \cup BlankCellInputs \cup HeaderInputs \cup ShortRowInputs \cup NoCountInputs \cup CommentInputs \cup NestInputs \cup MalInputs \cup BlankInputs \cup ScalarInputs \cup TableInputs
    \cup {UsersTable} \cup ListInputs \cup {NullInput}

\* the inputs that are also handed over as a file
FileFams == {"nest", "blank", "null"}

\* the inputs whose tree the client writes as JSON
JsonFams == {"nest", "cells", "rows", "list", "num"}

\* the inputs whose tree the client goes on to query
QueryFams == {"nest", "mal", "list"}

(***************************************************************************)
(* The state machine                                                       *)
(***************************************************************************)
NoCall == [op |-> "none", arg |-> NULL, path |-> NoStr, index |-> 0,
           ret |-> NULL, oob |-> FALSE, crash |-> FALSE, released |-> FreeInit(<<>>),
           out |-> <<>>]

InitParse ==
    /\ input \in Inputs
    /\ entry \in (IF input.fam \in FileFams THEN {"string", "file"} ELSE {"string"})
    /\ fp = IF entry = "file" THEN (IF input.fam = "null" THEN "null" ELSE "open") ELSE "none"
    /\ source = <<>>
    /\ p = 1
    /\ line = 1
    /\ heap = <<>>
    /\ stack = <<>>
    /\ stack_size = 0
    /\ ub = FALSE
    /\ pc = "start"
    /\ root = NULL
    /\ call = NoCall

\* a client that builds a tree with the creation functions starts from
\* TOONc_newObject(KV_OBJ)
InitBuild ==
    /\ input = [fam |-> "build", text |-> <<>>]
    /\ entry = "build"
    /\ fp = "none"
    /\ source = <<>>
    /\ p = 1
    /\ line = 1
    /\ heap = <<newObject(KV_OBJ)>>
    /\ stack = <<>>
    /\ stack_size = 0
    /\ ub = FALSE
    /\ pc = "build"
    /\ root = 1
    /\ call = NoCall

\* a client that fills a List starts from TOONc_newListObj(); pushed is the
\* sequence of the nodes it has appended
InitPush ==
    /\ input = [fam |-> "push", text |-> <<>>, pushed |-> <<>>]
    /\ entry = "push"
    /\ fp = "none"
    /\ source = <<>>
    /\ p = 1
    /\ line = 1
    /\ heap = <<newListObj>>
    /\ stack = <<>>
    /\ stack_size = 0
    /\ ub = FALSE
    /\ pc = "push"
    /\ root = 1
    /\ call = NoCall

Init == InitParse \/ InitBuild \/ InitPush

\* parse() up to its while loop
StartParse(text) ==
    /\ source' = text
    /\ p' = parseInit.p
    /\ line' = parseInit.line
    /\ heap' = parseInit.heap
    /\ stack' = parseInit.stack
    /\ stack_size' = parseInit.stack_size
    /\ pc' = "parse"
    /\ UNCHANGED <<ub, root>>

ReturnNull ==
    /\ root' = NULL
    /\ pc' = "done"
    /\ UNCHANGED <<source, p, line, heap, stack, stack_size, ub>>

\* TOONc_parseString(str) up to the loop of parse
ParseString ==
    /\ pc = "start"
    /\ entry = "string"
    /\ IF input.text = NoStr THEN ReturnNull ELSE StartParse(input.text)
    /\ UNCHANGED <<input, entry, fp, call>>

\* TOONc_parseFile(fp) up to the loop of parse: the size test, the read and
\* the fclose
ParseFile ==
    /\ pc = "start"
    /\ entry = "file"
    /\ IF fp = "null" THEN ReturnNull /\ fp' = fp
       ELSE IF Len(input.text) <= 0 THEN ReturnNull /\ fp' = fp
       ELSE StartParse(input.text) /\ fp' = "closed"
    /\ UNCHANGED <<input, entry, call>>

State == [p |-> p, line |-> line, heap |-> heap, ub |-> ub, res |-> NULL,
          stack |-> stack, stack_size |-> stack_size]

\* the parser's variables after an iteration that returned r
Iterated(r, br) ==
    /\ r.br = br
    /\ p' = r.st.p
    /\ line' = r.st.line
    /\ heap' = r.st.heap
    /\ ub' = r.st.ub
    /\ stack' = r.st.stack
    /\ stack_size' = r.st.stack_size

\* one iteration of the while loop of parse that takes branch br
Iterate(br) ==
    /\ At(source, p) # NUL
    /\ iterationBranch(source, p) = br
    /\ Iterated(iteration(source, State), br)
    /\ UNCHANGED <<input, entry, fp, source, pc, root, call>>

ParseSkip ==
    /\ pc = "parse"
    /\ Iterate("skip")

ParseEmptyKey ==
    /\ pc = "parse"
    /\ Iterate("emptykey")

ParseNoColon ==
    /\ pc = "parse"
    /\ Iterate("nocolon")

ParseTable ==
    /\ pc = "parse"
    /\ Iterate("table")

ParseList ==
    /\ pc = "parse"
    /\ Iterate("list")

ParseValue ==
    /\ pc = "parse"
    /\ Iterate("value")

\* the end of the loop: parse frees the stack and returns root, the caller
\* frees the buffer and returns root
ParseReturn ==
    /\ pc = "parse"
    /\ At(source, p) = NUL
    /\ stack' = <<>>
    /\ stack_size' = 0
    /\ source' = <<>>
    /\ root' = 1
    /\ pc' = "done"
    /\ UNCHANGED <<input, entry, fp, p, line, heap, ub, call>>

\* the kinds and keys of the properties the client makes
BuildProps ==
    {[kvtype |-> KV_OBJ, key |-> <<"a">>],
     [kvtype |-> KV_OBJ, key |-> <<"A">>],
     [kvtype |-> KV_INT, key |-> <<"a">>],
     [kvtype |-> KV_INT, key |-> <<"a", "b">>],
     [kvtype |-> KV_LIST, key |-> <<"a", "b">>]}

\* what the creation function of a kind returns
newOfKind(kvtype) ==
    IF kvtype = KV_INT THEN newIntObj(7)
    ELSE IF kvtype = KV_LIST THEN newListObj
    ELSE newObject(kvtype)

\* prop becomes the last property of parent
linkLast(h, parent, prop) ==
    IF h[parent].child = NULL
    THEN [h EXCEPT ![parent].child = prop]
    ELSE [h EXCEPT ![LastSibling(h, h[parent].child)].next = prop]

\* the client makes an object, names it and links it as the last property of
\* parent (test_object_creation: strdup of the key, child and next links)
BuildProp ==
    /\ pc = "build"
    /\ Len(heap) < MaxNodes
    /\ \E parent \in 1..Len(heap), bp \in BuildProps :
          /\ heap[parent].kvtype = KV_OBJ
          /\ heap' = linkLast(Append(heap, [newOfKind(bp.kvtype) EXCEPT !.key = bp.key]),
                              parent, Len(heap) + 1)
    /\ UNCHANGED <<input, entry, fp, source, p, line, stack, stack_size, ub, pc, root, call>>

\* TOONc_listPush(list, TOONc_new...Obj())
BuildPush ==
    /\ pc = "build"
    /\ Len(heap) < MaxNodes
    /\ \E list \in 1..Len(heap), kvtype \in {KV_INT, KV_OBJ} :
          /\ heap[list].kvtype = KV_LIST
          /\ heap' = [Append(heap, newOfKind(kvtype)) EXCEPT
                         ![list] = listPush(heap[list], Len(heap) + 1)]
    /\ UNCHANGED <<input, entry, fp, source, p, line, stack, stack_size, ub, pc, root, call>>

\* TOONc_listPush(root, TOONc_new...Obj()) on the List the client fills
PushItem ==
    /\ pc = "push"
    /\ heap[root].len < MaxPush
    /\ \E kvtype \in {KV_INT, KV_OBJ} :
          heap' = [Append(heap, newOfKind(kvtype)) EXCEPT
                      ![root] = listPush(heap[root], Len(heap) + 1)]
    /\ input' = [input EXCEPT !.pushed = Append(@, Len(heap) + 1)]
    /\ UNCHANGED <<entry, fp, source, p, line, stack, stack_size, ub, pc, root, call>>

QueryPaths ==
    {<<"a">>,
     <<"A">>,
     <<"a", "b">>,
     <<"b">>,
     <<"a", ".", "a">>,
     <<"a", ".", "a", "b">>,
     <<"a", ".", "a", ".", "a", "b">>,
     <<".", "a">>,
     <<"a", ".", ".", "a">>,
     <<"v", "a", "l", "i", "d">>,
     <<"k">>,
     <<>>, NoStr}

\* the client queries a tree it has built or one TOONc_parseString returned
Queryable ==
    \/ pc = "build"
    \/ pc = "done" /\ root # NULL /\ entry = "string" /\ input.fam \in QueryFams

\* the objects a client passes to TOONc_get: the root, a null pointer, an
\* object it got out of a list
QueryRoots ==
    {NULL, root} \cup
    {n \in 1..Len(heap) : heap[n].kvtype = KV_OBJ /\
        \E l \in 1..Len(heap) : heap[l].kvtype = KV_LIST /\
            \E k \in 1..heap[l].len : heap[l].items[k] = n}

Get ==
    /\ Queryable
    /\ \E r \in QueryRoots, path \in QueryPaths :
          call' = [NoCall EXCEPT !.op = "get", !.arg = r, !.path = path,
                                 !.ret = TOONc_get(heap, r, path)]
    /\ pc' = "queried"
    /\ UNCHANGED <<input, entry, fp, source, p, line, heap, stack, stack_size, ub, root>>

GetArrayItem ==
    /\ Queryable
    /\ \E arr \in 0..Len(heap), index \in 0..MaxIndex :
          \E o \in TOONc_getArrayItem(heap, arr, index) :
             call' = [NoCall EXCEPT !.op = "getArrayItem", !.arg = arr, !.index = index,
                                    !.ret = o.ret, !.oob = o.oob, !.crash = o.crash]
    /\ pc' = "queried"
    /\ UNCHANGED <<input, entry, fp, source, p, line, heap, stack, stack_size, ub, root>>

GetArrayLength ==
    /\ Queryable
    /\ \E arr \in 0..Len(heap) :
          call' = [NoCall EXCEPT !.op = "getArrayLength", !.arg = arr,
                                 !.ret = TOONc_getArrayLength(heap, arr)]
    /\ pc' = "queried"
    /\ UNCHANGED <<input, entry, fp, source, p, line, heap, stack, stack_size, ub, root>>

\* TOONc_toJSON(obj, stdout, 0) on the root or on a node the client got
\* from it, of a parsed tree or of a tree the client has built
ToJSON ==
    /\ \/ pc = "build"
       \/ pc = "done" /\ entry = "string" /\ input.fam \in JsonFams /\ ~ub
    /\ \E obj \in 0..Len(heap) :
          call' = [NoCall EXCEPT !.op = "toJSON", !.arg = obj,
                                 !.out = TOONc_toJSON(heap, obj, 0)]
    /\ pc' = "queried"
    /\ UNCHANGED <<input, entry, fp, source, p, line, heap, stack, stack_size, ub, root>>

\* TOONc_free(root) on what the parser returned (a null pointer included) or
\* on the tree the client has built
Free ==
    /\ pc \in {"build", "done", "push"}
    /\ call' = [NoCall EXCEPT !.op = "free", !.arg = root,
                              !.released = TOONc_free(FreeInit(heap), root)]
    /\ pc' = "freed"
    /\ UNCHANGED <<input, entry, fp, source, p, line, heap, stack, stack_size, ub, root>>

Next ==
    \/ ParseString
    \/ ParseFile
    \/ ParseSkip
    \/ ParseEmptyKey
    \/ ParseNoColon
    \/ ParseTable
    \/ ParseList
    \/ ParseValue
    \/ ParseReturn
    \/ BuildProp
    \/ BuildPush
    \/ PushItem
    \/ Get
    \/ GetArrayItem
    \/ GetArrayLength
    \/ ToJSON
    \/ Free

Spec == Init /\ [][Next]_vars

\* an iteration of the while loop of parse
ParseIter ==
    \/ ParseSkip
    \/ ParseEmptyKey
    \/ ParseNoColon
    \/ ParseTable
    \/ ParseList
    \/ ParseValue

\* the parser, once called, keeps running: the entry point, the loop body
\* and the return are each taken if they stay possible.  The fairness of
\* the loop body is written out, the body being possible exactly while the
\* loop condition parser.p[0] holds.
LiveSpec ==
    /\ Spec
    /\ WF_vars(ParseString)
    /\ WF_vars(ParseFile)
    /\ WF_vars(ParseReturn)
    /\ ([]<>(pc # "parse" \/ At(source, p) = NUL) \/ []<><<ParseIter>>_vars)

(***************************************************************************)
(* Properties.  The nodes of a tree are numbered in the order of their     *)
(* creation, so of two children of a node the one with the smaller number  *)
(* was inserted first.                                                     *)
(***************************************************************************)
RECURSIVE NextSeq(_, _)
\* the nodes of a sibling chain from c on
NextSeq(h, c) == IF c = NULL THEN <<>> ELSE <<c>> \o NextSeq(h, h[c].next)

\* the children of n in the order of its child list
ChildSeq(h, n) == NextSeq(h, h[n].child)

Range(f) == {f[k] : k \in DOMAIN f}

Children(h, n) == Range(ChildSeq(h, n))

\* n is a String node holding text
IsString(h, n, text) == n # NULL /\ h[n].kvtype = KV_STRING /\ h[n].str = text

\* the indentation level a line is written at: two spaces a level
LevelOf(l) == (SpaceRun(l, 1) - 1) \div 2

\* node (i + 1) is the node of line i: every line of a document of property
\* lines makes one node
NestedUnderPrevious(h, lines) ==
    \A i \in 1..(Len(lines) - 1) :
        (lines[i][Len(lines[i])] = ":" /\ LevelOf(lines[i + 1]) = LevelOf(lines[i]) + 1)
            => (i + 2) \in Children(h, i + 1)

NestedDocResolves(h, r) ==
    /\ IsString(h, TOONc_get(h, r, <<"u", "s", "e", "r", ".", "n", "a", "m", "e">>), <<"A", "l", "i", "c", "e">>)
    /\ IsString(h, TOONc_get(h, r, <<"u", "s", "e", "r", ".", "a", "d", "d", "r", "e", "s", "s", ".", "c", "i", "t", "y">>), <<"S", "p", "r", "i", "n", "g", "f", "i", "e", "l", "d">>)
    /\ TOONc_get(h, r, <<"u", "s", "e", "r", ".", "m", "i", "s", "s", "i", "n", "g">>) = NULL

\* C1: a property line indented one level deeper than a preceding
\* empty-valued property becomes a child of the Object made for that
\* property; in the document user / name / address / city the paths
\* user.name and user.address.city lead to the Strings Alice and Springfield
\* and user.missing is not found
C1_Nesting ==
    (pc = "done" /\ input.fam = "nest" /\ root # NULL) =>
        /\ NestedUnderPrevious(heap, input.lines)
        /\ (input.lines = NestedDoc => NestedDocResolves(heap, root))

\* C2: getArrayItem returns the element at index when the node is a List
\* and 0 <= index < length; for every other input it returns NULL and reads
\* no slot outside [0, length)
C2_GetArrayItemBounds ==
    call.op = "getArrayItem" =>
        /\ ~call.oob
        /\ ~call.crash
        /\ call.ret = IF TOON_IS_LIST(heap, call.arg) /\ call.index < heap[call.arg].len
                      THEN heap[call.arg].items[call.index + 1] ELSE NULL

IsDigits(t) == t # <<>> /\ \A k \in 1..Len(t) : isdigit(t[k])

Unsigned(t) == IF t # <<>> /\ t[1] \in {"-", "+"} THEN Tail(t) ELSE t

\* digit+ ( '.' digit+ )?
MantissaText(t) ==
    \/ IsDigits(t)
    \/ \E k \in 2..(Len(t) - 1) :
          t[k] = "." /\ IsDigits(SubSeq(t, 1, k - 1)) /\ IsDigits(SubSeq(t, k + 1, Len(t)))

IntText(t) == IsDigits(Unsigned(t))

\* [+-]? digit+ ( '.' digit+ )? ( [eE] [+-]? digit+ )? with a fraction or
\* an exponent
DoubleText(t) ==
    /\ ~IntText(t)
    /\ \/ MantissaText(Unsigned(t))
       \/ \E k \in 2..(Len(Unsigned(t)) - 1) :
             /\ Unsigned(t)[k] \in {"e", "E"}
             /\ MantissaText(SubSeq(Unsigned(t), 1, k - 1))
             /\ IsDigits(Unsigned(SubSeq(Unsigned(t), k + 1, Len(Unsigned(t)))))

QuotedText(t) == Len(t) >= 2 /\ t[1] = "\"" /\ t[Len(t)] = "\""

\* the values of the Doubles the format description lists
ListedDouble(t) ==
    IF t = <<"-", "3", ".", "1", "4">> THEN [m |-> -314, e |-> -2]
    ELSE IF t = <<"1", ".", "5", "e", "1", "0">> THEN [m |-> 15, e |-> 9]
    ELSE [m |-> -25, e |-> -4]

\* node x holds the scalar the text v stands for
ScalarOf(x, v) ==
    IF QuotedText(v) THEN x.kvtype = KV_STRING /\ x.str = SubSeq(v, 2, Len(v) - 1)
    ELSE IF v = <<"t", "r", "u", "e">> THEN x.kvtype = KV_BOOL /\ x.boolean = 1
    ELSE IF v = <<"f", "a", "l", "s", "e">> THEN x.kvtype = KV_BOOL /\ x.boolean = 0
    ELSE IF v = <<"n", "u", "l", "l">> THEN x.kvtype = KV_NULL
    ELSE IF IntText(v)
         THEN x.kvtype = KV_INT /\
              x.i = (IF v[1] = "-" THEN 0 - DigitsVal(Unsigned(v), 0) ELSE DigitsVal(Unsigned(v), 0))
    ELSE IF DoubleText(v)
         THEN x.kvtype = KV_DOUBLE /\
              (v \in {<<"-", "3", ".", "1", "4">>, <<"1", ".", "5", "e", "1", "0">>, <<"-", "2", ".", "5", "e", "-", "3">>} => x.d = ListedDouble(v))
    ELSE x.kvtype = KV_STRING /\ x.str = v

\* C3: for every top-level line key: v, get(root, "key") is a node whose
\* kind and value are those of v: Int, Double, Bool, Null, the String between
\* the quotes, and for any other text the String holding the trimmed text
C3_ScalarClassification ==
    (pc = "done" /\ input.fam = "scalar") =>
        /\ TOONc_get(heap, root, KeyName) # NULL
        /\ ScalarOf(heap[TOONc_get(heap, root, KeyName)], input.v)

\* r is a key-less Object whose properties are the columns cols in order,
\* each holding the scalar of the field of row, and get finds each by name
RowOf(h, r, cols, row) ==
    /\ h[r].kvtype = KV_OBJ
    /\ h[r].key = NoStr
    /\ Len(ChildSeq(h, r)) = Len(cols)
    /\ \A j \in 1..Len(cols) :
          /\ h[ChildSeq(h, r)[j]].key = cols[j]
          /\ ScalarOf(h[ChildSeq(h, r)[j]], row[j])
          /\ TOONc_get(h, r, cols[j]) = ChildSeq(h, r)[j]

\* l is a List of one row Object for each of rows
TableOf(h, l, cols, rows) ==
    /\ TOON_IS_LIST(h, l)
    /\ TOONc_getArrayLength(h, l) = Len(rows)
    /\ \A i \in 1..Len(rows) :
          \A o \in TOONc_getArrayItem(h, l, i - 1) :
              ~o.oob /\ o.ret # NULL /\ RowOf(h, o.ret, cols, rows[i])

\* C4: a header k[N]{c1,...,cm}: followed by N rows of m non-empty fields
\* yields under k a List of length N whose element i is a key-less Object
\* with the properties c1..cm in declared order, each holding the scalar of
\* the field of row i; k[0]{...}: yields an empty List
C4_TabularBlock ==
    (pc = "done" /\ input.fam = "table") =>
        TableOf(heap, TOONc_get(heap, root, input.key), input.cols, input.rows)

\* the block users[2]{id,name} with the rows 1,Alice and 2,Bob is parsed and
\* get(getArrayItem(users, 1), "name") is the String Bob
C4_UsersTableParsed ==
    /\ pc = "done"
    /\ input = UsersTable
    /\ \E o \in TOONc_getArrayItem(heap, TOONc_get(heap, root, <<"u", "s", "e", "r", "s">>), 1) :
          IsString(heap, TOONc_get(heap, o.ret, <<"n", "a", "m", "e">>), <<"B", "o", "b">>)

\* l is a List whose elements are the key-less scalars of cells, in order
ListOf(h, l, cells) ==
    /\ TOON_IS_LIST(h, l)
    /\ TOONc_getArrayLength(h, l) = Len(cells)
    /\ \A i \in 1..Len(cells) :
          \A o \in TOONc_getArrayItem(h, l, i - 1) :
              ~o.oob /\ o.ret # NULL /\ h[o.ret].key = NoStr /\ ScalarOf(h[o.ret], cells[i])

\* C5: a line k[N]: v1,...,vn with non-empty cells yields under k a List of
\* length n, the number of values present, whose element i is the key-less
\* scalar of v(i+1), kinds mixed; k[0]: with nothing after the colon yields
\* an empty List
C5_SimpleArray ==
    (pc = "done" /\ input.fam = "list") =>
        ListOf(heap, TOONc_get(heap, root, input.key), input.cells)

\* a line declaring 2 values and holding 3 of mixed kinds is parsed into a
\* List of 3
C5_MixedListParsed ==
    /\ pc = "done"
    /\ input.fam = "list"
    /\ input.n = 2
    /\ input.cells = <<<<"1">>, <<"x">>, <<"t", "r", "u", "e">>>>
    /\ heap[TOONc_get(heap, root, input.key)].len = 3

\* C6: in a document with one line that has a key and no colon, or an empty
\* key, parsing does not abort, the valid lines before and after it yield
\* the nodes they yield with the malformed line deleted, and get for the
\* key the malformed line was meant to set returns NULL
C6_MalformedLineRecovery ==
    (pc = "done" /\ input.fam = "mal") =>
        /\ root # NULL
        /\ heap = parse(TextOf(Without(input.lines, input.bad), TRUE)).heap
        /\ (input.key # <<>> => TOONc_get(heap, root, input.key) = NULL)

\* C7: for a buffer of comment lines, blank lines and lines of white space
\* only (the empty buffer and a buffer ending in spaces without a newline
\* included) TOONc_parseString returns a root of kind Object without children
C7_CommentsAndBlanksOnly ==
    (pc = "done" /\ input.fam = "blank" /\ entry = "string") =>
        /\ root # NULL
        /\ heap[root].kvtype = KV_OBJ
        /\ heap[root].child = NULL
        /\ Len(heap) = 1

\* a buffer of a comment line and a last line of one space has been parsed
C7_CommentThenSpacesParsed ==
    /\ pc = "done"
    /\ entry = "string"
    /\ input.fam = "blank"
    /\ input.text = <<"#", "a", NL, SP>>
    /\ root # NULL

RECURSIVE DotFree(_, _)
\* the end (exclusive) of the text without a dot that starts at q
DotFree(path, q) == IF q <= Len(path) /\ path[q] # "." THEN DotFree(path, q + 1) ELSE q

RECURSIVE SegmentsFrom(_, _)
\* the texts between the dots of path from q on
SegmentsFrom(path, q) ==
    <<SubSeq(path, q, DotFree(path, q) - 1)>> \o
        (IF DotFree(path, q) > Len(path) THEN <<>> ELSE SegmentsFrom(path, DotFree(path, q) + 1))

Segments(path) == SegmentsFrom(path, 1)

\* a path of non-empty segments
WellFormedPath(path) == path # NoStr /\ \A seg \in Range(Segments(path)) : seg # <<>>

\* the earliest inserted of the nodes ms, NULL when there is none
Earliest(ms) == IF ms = {} THEN NULL ELSE CHOOSE c \in ms : \A d \in ms : c <= d

RECURSIVE Resolve(_, _, _)
\* segment after segment, the earliest child whose key is the segment
Resolve(h, n, segs) ==
    IF n = NULL \/ segs = <<>> THEN n
    ELSE Resolve(h, Earliest({c \in Children(h, n) : h[c].key = Head(segs)}), Tail(segs))

\* C8: get(root, path) resolves the segments of path left to right, taking
\* at each step the first child in insertion order whose key equals the
\* segment exactly; a segment without a matching child makes the call return
\* NULL, otherwise the node matched by the last segment is returned
C8_GetResolvesPath ==
    (call.op = "get" /\ call.arg # NULL /\ WellFormedPath(call.path)) =>
        call.ret = Resolve(heap, call.arg, Segments(call.path))

\* get has resolved a.ab through the earlier of two children named a
C8_DuplicateKeyResolved ==
    /\ call.op = "get"
    /\ call.arg # NULL
    /\ call.path = <<"a", ".", "a", "b">>
    /\ call.ret # NULL
    /\ \E c, d \in Children(heap, call.arg) :
          c < d /\ heap[c].key = <<"a">> /\ heap[d].key = <<"a">> /\ call.ret \in Children(heap, c)

\* C9: TOONc_getArrayLength returns the number of elements of a List and 0
\* for a scalar, an Object and a null pointer
C9_GetArrayLengthNonArray ==
    call.op = "getArrayLength" =>
        call.ret = IF TOON_IS_LIST(heap, call.arg) THEN heap[call.arg].len ELSE 0

\* C10: TOONc_parseFile has closed every non-null stream it was given when
\* it returns, whatever the content, the empty file included
C10_ParseFileClosesStream ==
    (pc \in {"done", "queried"} /\ entry = "file" /\ fp # "null") => fp = "closed"

\* C11: TOONc_parseFile on a stream holding s returns a tree equal to the
\* one TOONc_parseString(s) returns, for every content s, the empty one
\* included; the result is always a root of kind Object
C11_FileEqualsString ==
    (pc = "done" /\ entry = "file" /\ fp # "null") =>
        /\ root # NULL
        /\ heap[root].kvtype = KV_OBJ
        /\ heap = parse(input.text).heap

\* the nodes the links of n lead to: child, next and the list slots
Links(h, n) ==
    ({h[n].child, h[n].next} \cup
     (IF h[n].kvtype = KV_LIST THEN {h[n].items[k] : k \in 1..h[n].len} ELSE {})) \ {NULL}

RECURSIVE Closure(_, _, _)
\* the nodes reachable from those of S; T is S with the nodes S links to
Closure(h, S, T) == IF T = S THEN S ELSE Closure(h, T, T \cup UNION {Links(h, n) : n \in T})

\* the nodes reachable from r through child links, next links and list slots
Reach(h, r) == IF r = NULL THEN {} ELSE Closure(h, {}, {r})

\* 1 for a released allocation that exists, 0 otherwise
Once(b) == IF b THEN 1 ELSE 0

\* f has released node n with its key, string and item array once if n is
\* one of owned, and not at all otherwise
ReleasedOnce(f, h, n, owned) ==
    /\ f.obj[n] = Once(owned)
    /\ f.key[n] = Once(owned /\ h[n].key # NoStr)
    /\ f.str[n] = Once(owned /\ h[n].kvtype = KV_STRING /\ h[n].str # NoStr)
    /\ f.items[n] = Once(owned /\ h[n].kvtype = KV_LIST /\ h[n].items # <<>>)

\* C12: TOONc_free(root) releases every node reachable from root through
\* child links, next links and list slots, with its key and payload, exactly
\* once, and nothing else; TOONc_free(NULL) does nothing
C12_FreeReleasesOnce ==
    call.op = "free" =>
        /\ call.released.depth = 0
        /\ \A n \in 1..Len(heap) :
              ReleasedOnce(call.released, heap, n, n \in Reach(heap, call.arg))

\* a parsed List of three values of mixed kinds has been released
C12_ParsedListFreed ==
    /\ call.op = "free"
    /\ call.arg # NULL
    /\ input.fam = "list"
    /\ Len(input.cells) = 3
    /\ \E n \in 1..Len(heap) : heap[n].kvtype = KV_STRING /\ call.released.str[n] = 1
    /\ \E n \in 1..Len(heap) : heap[n].kvtype = KV_LIST /\ call.released.items[n] = 1

\* the largest of a set of numbers, 0 for the empty set
Largest(S) == IF S = {} THEN 0 ELSE CHOOSE x \in S : \A y \in S : y <= x

\* the nodes directly below n: its children and its list elements
Below(h, n) ==
    Children(h, n) \cup
    (IF h[n].kvtype = KV_LIST THEN {h[n].items[k] : k \in 1..h[n].len} ELSE {})

RECURSIVE Height(_, _)
\* the nesting depth of the tree below n
Height(h, n) == IF Below(h, n) = {} THEN 0 ELSE 1 + Largest({Height(h, c) : c \in Below(h, n)})

\* C13: while a tree of nesting depth D is freed, the number of TOONc_free
\* invocations active at once is at most 2 D + 1, whatever the number of
\* siblings
C13_FreeDepthBounded ==
    (call.op = "free" /\ call.arg # NULL) =>
        call.released.maxdepth <= 2 * Height(heap, call.arg) + 1

\* a root with three or more properties and no deeper nesting has been freed
\* with three invocations active at most
C13_WideTreeFreed ==
    /\ call.op = "free"
    /\ call.arg # NULL
    /\ Len(ChildSeq(heap, call.arg)) >= 3
    /\ Height(heap, call.arg) = 1
    /\ call.released.maxdepth = 3

\* C14: after k appends to a List made by TOONc_newListObj its length is
\* k, element i is the i-th appended node (so earlier elements are not
\* changed by later appends) and the length is at most the capacity, across
\* the growth of the capacity 0, 4, 8, 16
C14_ListConstruction ==
    pc = "push" =>
        /\ heap[root].len = Len(input.pushed)
        /\ heap[root].len <= heap[root].capacity
        /\ heap[root].capacity = Len(heap[root].items)
        /\ \A i \in 1..Len(input.pushed) :
              \A o \in TOONc_getArrayItem(heap, root, i - 1) : ~o.oob /\ o.ret = input.pushed[i]

\* nine nodes have been appended and the capacity has grown to 16
C14_NinePushed ==
    /\ pc = "push"
    /\ Len(input.pushed) = 9
    /\ heap[root].len = 9
    /\ heap[root].capacity = 16

\* C15: the indentation level stored in the node of a property line is the
\* number of its leading spaces divided by 2, rounded down: 0 or 1 spaces
\* give level 0, 2 or 3 spaces level 1, 4 spaces level 2
C15_IndentMeasured ==
    (pc = "done" /\ input.fam = "nest" /\ root # NULL) =>
        \A i \in 1..Len(input.lines) : heap[i + 1].indent = LevelOf(input.lines[i])

\* the lines before line i that are one level above it
Openers(lines, i) == {j \in 1..(i - 1) : LevelOf(lines[j]) = LevelOf(lines[i]) - 1}

\* line i, which follows a deeper line, has its node (node i + 1) among the
\* children of root when its level is 0, and otherwise among those of the
\* Object of the last line before it that is one level above it
Reparented(h, r, lines, i) ==
    IF LevelOf(lines[i]) = 0 THEN (i + 1) \in Children(h, r)
    ELSE (Openers(lines, i) # {} /\ h[Largest(Openers(lines, i) \cup {1}) + 1].kvtype = KV_OBJ)
             => (i + 1) \in Children(h, Largest(Openers(lines, i)) + 1)

DedentDocResolves(h, r) ==
    /\ TOONc_get(h, r, <<"u", "s", "e", "r", ".", "p", "r", "e", "f", "e", "r", "e", "n", "c", "e", "s">>) # NULL
    /\ IsString(h, TOONc_get(h, r, <<"u", "s", "e", "r", ".", "p", "r", "e", "f", "e", "r", "e", "n", "c", "e", "s", ".", "t", "h", "e", "m", "e">>), <<"d", "a", "r", "k">>)

\* C16: a property line at level k that follows a more deeply nested block
\* is appended to the Object opened at level k - 1 (root for k = 0); after
\* user / address / coordinates / lat the line preferences becomes a child
\* of user and the lines below it children of preferences
C16_ReparentOnDedent ==
    (pc = "done" /\ input.fam = "nest" /\ root # NULL) =>
        /\ \A i \in 2..Len(input.lines) :
              LevelOf(input.lines[i]) < LevelOf(input.lines[i - 1])
                  => Reparented(heap, root, input.lines, i)
        /\ (input.lines = DedentDoc => DedentDocResolves(heap, root))

\* l is a comment line, an empty line or a line of spaces and tabs
Skipped(l) ==
    \A i \in 1..Len(l) :
        l[i] \in {SP, TAB} \/ \E j \in 1..i : l[j] = "#" /\ \A k \in 1..(j - 1) : l[k] \in {SP, TAB}

IsKept(l) == ~Skipped(l)

\* the line of s the cursor q stands at the start of
LineAt(s, q) == SubSeq(s, q, LineEnd(s, q) - 1)

\* the parse has added nothing for the comment and blank lines: the nodes
\* are those of the document without these lines, and key2, which appears
\* in a comment only, is not found
CommentsLeftOut ==
    (pc = "done" /\ input.fam = "comment") =>
        /\ root # NULL
        /\ heap = parse(TextOf(SelectSeq(input.lines, IsKept), TRUE)).heap
        /\ TOONc_get(heap, root, <<"k", "e", "y", "2">>) = NULL

\* the step of the loop of parse at a comment or blank line changes no
\* node, adds none and leaves the stack as it is
CommentStep ==
    (pc = "parse" /\ input.fam = "comment" /\ At(source, p) # NUL /\ Skipped(LineAt(source, p)))
        => (heap' = heap /\ stack' = stack /\ stack_size' = stack_size)

ValueIsRemainder ==
    (pc = "done" /\ input.fam = "scalar") =>
        /\ Len(heap) = 2
        /\ ChildSeq(heap, root) = <<2>>
        /\ heap[2] = [valueOfSpan(input.v).obj EXCEPT !.key = KeyName]

\* the step that makes the property of the line leaves nothing of the line
\* behind the cursor
LineConsumed ==
    (pc = "parse" /\ input.fam = "scalar" /\ Len(heap') > Len(heap)) => At(source, p') = NUL

\* C18: for a property line with neither [N] nor {cols} the value is the
\* scalar lexer applied to the whole trimmed remainder of the line after the
\* colon, whatever characters it holds: the line yields exactly one property
\* and no part of it is left over to be parsed as a further line
C18_WholeRemainder == [] ValueIsRemainder /\ [][LineConsumed]_vars

\* row with the text null in the place of each of the fields it lacks
Padded(row, m) == [j \in 1..m |-> IF j <= Len(row) THEN row[j] ELSE <<"n", "u", "l", "l">>]

\* C19: in a tabular block a row line with fewer fields than declared
\* columns still gives a row Object with a property for every declared
\* column: each column without a field is present with kind Null, so
\* get(row, c) is a Null node, not NULL, for each missing trailing column c
C19_MissingFieldsNull ==
    (pc = "done" /\ input.fam = "short") =>
        TableOf(heap, TOONc_get(heap, root, input.key), input.cols,
                [i \in 1..Len(input.rows) |-> Padded(input.rows[i], Len(input.cols))])

\* C20: a header k{c1,c2}: with a column list and no declared count is
\* handed to the tabular row parser, which reads row lines up to a blank
\* line or the end of the input and makes one row Object of each; the
\* property after the blank line is a property of root
C20_UncountedTable ==
    (pc = "done" /\ input.fam = "nocount") =>
        /\ TableOf(heap, TOONc_get(heap, root, input.key), input.cols, input.rows)
        /\ (input.tail # <<>> => TOONc_get(heap, root, <<"z">>) # NULL)

RECURSIVE SplitBy(_, _)
\* the pieces of t between the occurrences of the character c
SplitBy(t, c) ==
    IF \E i \in 1..Len(t) : t[i] = c
    THEN <<SubSeq(t, 1, (CHOOSE i \in 1..Len(t) : t[i] = c /\ \A j \in 1..(i - 1) : t[j] # c) - 1)>>
         \o SplitBy(SubSeq(t, (CHOOSE i \in 1..Len(t) : t[i] = c /\ \A j \in 1..(i - 1) : t[j] # c) + 1, Len(t)), c)
    ELSE <<t>>

RECURSIVE Strip(_)
\* t without the white space around it
Strip(t) ==
    IF t # <<>> /\ isspace(t[1]) THEN Strip(Tail(t))
    ELSE IF t # <<>> /\ isspace(t[Len(t)]) THEN Strip(SubSeq(t, 1, Len(t) - 1))
    ELSE t

\* the column names the list h declares
DeclaredNames(h) == [j \in 1..Len(SplitBy(h, ",")) |-> Strip(SplitBy(h, ",")[j])]

\* r is an Object whose properties are keyed names, in order, and get finds
\* a property under each of the names
KeyedBy(h, r, names) ==
    /\ r # NULL
    /\ h[r].kvtype = KV_OBJ
    /\ Len(ChildSeq(h, r)) = Len(names)
    /\ \A j \in 1..Len(names) :
          /\ h[ChildSeq(h, r)[j]].key = names[j]
          /\ TOONc_get(h, r, names[j]) \in Children(h, r)

\* C21: the column names of a {c1,c2,...} header are trimmed of the white
\* space around them and kept in declared order without deduplication: for
\* k[1]{id, name}: the properties of the row are keyed id and name, and
\* get(row, "name") finds the second column
C21_ColumnNamesTrimmed ==
    (/\ pc = "done"
     /\ input.fam = "header"
     /\ input.closed
     /\ \A j \in 1..Len(DeclaredNames(input.hdr)) : DeclaredNames(input.hdr)[j] # <<>>) =>
        /\ TOONc_getArrayLength(heap, TOONc_get(heap, root, <<"k">>)) = 1
        /\ \A o \in TOONc_getArrayItem(heap, TOONc_get(heap, root, <<"k">>), 0) :
              KeyedBy(heap, o.ret, DeclaredNames(input.hdr))

\* C29: parseTableColumns initialises every one of the col_count slots it
\* reports, for every header text (the empty list {} and a list with a
\* trailing comma such as {a,} included), so no uninitialised column name
\* is read by parseTableRows or freed by parse
C29_ColumnSlotsInitialised ==
    input.fam = "header" => ~ub

\* cells with the text null in the place of each blank cell
BlanksAsNull(cells) ==
    [i \in 1..Len(cells) |-> IF cells[i] = <<>> THEN <<"n", "u", "l", "l">> ELSE cells[i]]

\* C22: in list context a blank cell means null: every blank cell of a line
\* k[N]: ..., leading (,a), between two separators (a,,b) or after the last
\* separator (a,b,), gives one Null element, so the length of the List is
\* the number of separators plus one
C22_BlankCellsNull ==
    (pc = "done" /\ input.fam = "cells") =>
        /\ TOONc_getArrayLength(heap, TOONc_get(heap, root, input.key)) = Len(input.cells)
        /\ ListOf(heap, TOONc_get(heap, root, input.key), BlanksAsNull(input.cells))

Min(a, b) == IF a < b THEN a ELSE b

\* the number of lines the row parser has to consume in a block of the rows
\* family: the lines up to the declared count or the end of the input
Consumed(in) == Min(in.declared, in.n + Len(in.tail))

\* the position after the header and the first c lines that follow it
AfterLines(in, c) == 1 + Len(TextOf(SubSeq(in.lines, 1, c + 1), TRUE))

\* the List of the block has one row Object for each consumed line, and the
\* Object of a row line is keyed by the columns its fields fill, each
\* holding the Int 1
RowPerLine ==
    (pc = "done" /\ input.fam = "rows") =>
        /\ TOONc_getArrayLength(heap, TOONc_get(heap, root, input.key)) = Consumed(input)
        /\ \A i \in 1..Min(Consumed(input), input.n) :
              \A o \in TOONc_getArrayItem(heap, TOONc_get(heap, root, input.key), i - 1) :
                  /\ o.ret # NULL
                  /\ RowOf(heap, o.ret, SubSeq(input.cols, 1, Min(input.k, Len(input.cols))),
                           [j \in 1..Len(input.cols) |-> <<"1">>])

\* the step of parse that reads the block leaves the cursor at the start of
\* the line after the consumed ones
WholeLinesConsumed ==
    (pc = "parse" /\ input.fam = "rows" /\ p = 1) => p' = AfterLines(input, Consumed(input))

\* C23: the tabular row parser consumes one whole line per iteration and
\* appends exactly one row Object per consumed line, whatever the number of
\* fields of the line: there are as many row Objects as consumed lines and
\* no part of a row line (fields beyond the declared columns) is left to be
\* parsed as another row or as a property line
C23_OneRowPerLine == [] RowPerLine /\ [][WholeLinesConsumed]_vars

\* C30: when a header k[N]{cols}: is followed by fewer than N row lines and
\* then, without a blank line, by a property line p: v, the row parser
\* consumes that line as a row whatever its indentation: the table stops
\* only at a blank line, the end of the input or after N rows, and p is not
\* a property of any Object: get(root, "p") is NULL
C30_GreedyRows ==
    (pc = "done" /\ input.fam = "rows" /\ input.n < input.declared /\ input.tail # <<>>) =>
        /\ TOONc_get(heap, root, <<"p">>) = NULL
        /\ \A x \in 1..Len(heap) : heap[x].key # <<"p">>
        /\ TOONc_getArrayLength(heap, TOONc_get(heap, root, input.key)) = input.n + 1

\* C24: the numeric classification is the grammar
\* [+-]? digit+ ( '.' digit+ )? ( [eE] [+-]? digit+ )? over the whole span:
\* an unquoted span is an Int iff it matches with neither fraction nor
\* exponent, a Double iff it matches with a fraction or an exponent, and a
\* span the grammar does not consume entirely (2.1.0, 1., .5, 12ab, 1e, -)
\* is a String holding the raw span
C24_NumericGrammar ==
    (pc = "done" /\ input.fam = "num") =>
        /\ TOONc_get(heap, root, KeyName) # NULL
        /\ heap[TOONc_get(heap, root, KeyName)].kvtype =
              (IF IntText(input.v) THEN KV_INT
               ELSE IF DoubleText(input.v) THEN KV_DOUBLE
               ELSE KV_STRING)
        /\ (~IntText(input.v) /\ ~DoubleText(input.v)
               => heap[TOONc_get(heap, root, KeyName)].str = input.v)

\* the list slots of the nodes of S
Slots(h, S) == UNION {{<<n, k>> : k \in 1..h[n].len} : n \in {x \in S : h[x].kvtype = KV_LIST}}

\* the number of links from nodes of S to x: child links, next links and
\* list slots
InDegree(h, S, x) ==
    Cardinality({n \in S : h[n].child = x}) + Cardinality({n \in S : h[n].next = x})
    + Cardinality({s \in Slots(h, S) : h[s[1]].items[s[2]] = x})

\* among the nodes S reachable from r no link leads to r and exactly one
\* leads to every other node: S is a tree with root r
TreeShaped(h, r, S) ==
    /\ InDegree(h, S, r) = 0
    /\ \A x \in S \ {r} : InDegree(h, S, x) = 1

\* C25: in every tree the parser returns, for any input, every node other
\* than root is referenced by exactly one parent link (a child link, the
\* next link of a sibling or one list slot), no node is reachable by two
\* different paths, and following child, next and list links never comes
\* back to a node
C25_TreeShape ==
    (pc = "done" /\ entry \in {"string", "file"} /\ root # NULL) =>
        TreeShaped(heap, root, Reach(heap, root))

\* a line k[3]: of three cells is parsed: root, the List and its elements
C25_ListOfThreeParsed ==
    /\ pc = "done"
    /\ input.fam = "list"
    /\ Len(input.cells) = 3
    /\ Cardinality(Reach(heap, root)) = 5


\* t without the spaces and line ends
Squeezed(t) == SelectSeq(t, LAMBDA c : c \notin {SP, NL})

Quoted(t) == <<"\"">> \o t \o <<"\"">>

RECURSIVE JsonOf(_, _)
\* the JSON text of node n without layout: its key and a colon if it has a
\* key, then its value
JsonOf(h, n) ==
    (IF h[n].key # NoStr THEN Quoted(h[n].key) \o <<":">> ELSE <<>>) \o
    (CASE h[n].kvtype = KV_OBJ ->
            <<"{">> \o JoinWith([j \in 1..Len(ChildSeq(h, n)) |-> JsonOf(h, ChildSeq(h, n)[j])],
                                <<",">>) \o <<"}">>
       [] h[n].kvtype = KV_LIST ->
            <<"[">> \o JoinWith([j \in 1..h[n].len |-> JsonOf(h, h[n].items[j])], <<",">>)
                    \o <<"]">>
       [] h[n].kvtype = KV_INT -> fmtD(h[n].i)
       [] h[n].kvtype = KV_BOOL ->
            IF h[n].boolean # 0 THEN <<"t", "r", "u", "e">> ELSE <<"f", "a", "l", "s", "e">>
       [] h[n].kvtype = KV_NULL -> <<"n", "u", "l", "l">>
       [] OTHER -> Quoted(h[n].str))

\* t is the decimal literal of the integer i
DecimalOf(t, i) ==
    /\ IsDigits(Unsigned(t))
    /\ (t[1] = "-") = (i < 0)
    /\ t[1] # "+"
    /\ DigitsVal(Unsigned(t), 0) = (IF i < 0 THEN 0 - i ELSE i)

\* what follows "key": in the text t written for a node with that key
AfterKey(t, key) == IF key # NoStr THEN SubSeq(t, Len(key) + 5, Len(t)) ELSE t

\* C26: TOONc_toJSON writes an Object as { } around one "key": value pair
\* per child in child order and a List as [ ] around its elements in index
\* order, with commas between and none after the last; an Int, Bool, Null
\* or String is written as its decimal, true/false, null or double-quoted
\* literal; only the node passed in is written, not its next siblings.
\* (Stated for trees without a Double, whose text is left to %f.)
C26_ToJSON ==
    (/\ pc = "queried" /\ call.op = "toJSON" /\ call.arg # NULL
     /\ \A n \in Reach(heap, call.arg) : heap[n].kvtype # KV_DOUBLE)
    => /\ Squeezed(call.out) = Squeezed(JsonOf(heap, call.arg))
       /\ heap[call.arg].kvtype = KV_INT
             => DecimalOf(AfterKey(call.out, heap[call.arg].key), heap[call.arg].i)

\* a List of two or more Objects with two children each has been written,
\* the List having a next sibling
C26_ListOfObjectsWritten ==
    /\ pc = "queried" /\ call.op = "toJSON" /\ call.arg # NULL
    /\ heap[call.arg].kvtype = KV_LIST /\ heap[call.arg].len >= 2
    /\ heap[call.arg].next # NULL
    /\ \A j \in 1..heap[call.arg].len :
          /\ heap[heap[call.arg].items[j]].kvtype = KV_OBJ
          /\ Len(ChildSeq(heap, heap[call.arg].items[j])) >= 2
    /\ \A n \in Reach(heap, call.arg) : heap[n].kvtype # KV_DOUBLE

\* a negative Int has been written
C26_NegativeWritten ==
    /\ pc = "queried" /\ call.op = "toJSON" /\ call.arg # NULL
    /\ heap[call.arg].kvtype = KV_INT /\ heap[call.arg].i < 0

\* the stack of parse holds between 1 and 64 entries in its 64 slots, the
\* first is the root, and every entry is an Object of the tree
StackBounded ==
    pc = "parse" =>
       /\ DOMAIN stack = 1..StackCap
       /\ stack_size \in 1..StackCap
       /\ stack[1] = 1
       /\ \A j \in 1..stack_size :
             /\ stack[j] \in Reach(heap, 1)
             /\ heap[stack[j]].kvtype = KV_OBJ

\* the number of entries the pop loop leaves for a property of that indent
Popped(size, indent) == IF size > indent + 1 THEN indent + 1 ELSE size

\* prop has been appended to the children of the entry the pop loop left on
\* top, and nothing but the slot above that entry has been written
AttachedToTop(prop) ==
    /\ Popped(stack_size, heap'[prop].indent) \in 1..StackCap
    /\ ChildSeq(heap', stack[Popped(stack_size, heap'[prop].indent)]) =
          Append(ChildSeq(heap, stack[Popped(stack_size, heap'[prop].indent)]), prop)
    /\ stack_size' \in {Popped(stack_size, heap'[prop].indent),
                        Popped(stack_size, heap'[prop].indent) + 1}
    /\ \A j \in 1..StackCap :
          stack'[j] # stack[j] =>
             /\ j = Popped(stack_size, heap'[prop].indent) + 1
             /\ j = stack_size'
             /\ stack'[j] = prop

\* an iteration of parse that makes objects attaches one property
StackStep ==
    (pc = "parse" /\ pc' = "parse" /\ Len(heap') > Len(heap))
    => \E prop \in (Len(heap) + 1)..Len(heap') : AttachedToTop(prop)

\* C27: at every point of parse, also for input nested deeper than 64
\* levels, 1 <= stack_size <= 64, stack[0] is the root, every entry below
\* stack_size is an Object attached to the tree, the parent of a property is
\* stack[stack_size - 1], and no slot outside the 64 is read or written.
C27_StackBounds == [] StackBounded /\ [][StackStep]_vars

\* the 66th line of a document nested 66 levels deep has been attached, and
\* the stack holds the root and the object that line opened
C27_DeepLineAttached ==
    /\ pc = "parse" /\ input.fam = "deep"
    /\ Len(heap) = input.levels + 1
    /\ stack_size = 2 /\ stack[2] = Len(heap)

\* the cursor is within the buffer or on its terminating NUL
CursorInBuffer == pc = "parse" => p \in 1..(Len(source) + 1)

\* an iteration of the main loop moves the cursor forward
CursorAdvances == (pc = "parse" /\ pc' = "parse") => p' > p

\* the iteration that is about to run leaves the cursor further on
NoStall == (pc = "parse" /\ At(source, p) # NUL) => iteration(source, State).st.p > p

\* the row loop made no more rows than were declared, and the column loop
\* no more fields in a row than there are columns
LoopsBounded ==
    (pc = "done" /\ input.fam = "rows" /\ ~ub) =>
       \A t \in Children(heap, root) :
          heap[t].kvtype = KV_LIST =>
             /\ heap[t].len <= input.declared
             /\ \A j \in 1..heap[t].len :
                   Len(ChildSeq(heap, heap[t].items[j])) <= Len(input.cols)

\* C28: parse terminates on every finite NUL-terminated buffer: every
\* iteration of the main loop strictly advances the cursor, the row and
\* column loops are bounded, and the cursor never moves past the NUL, also
\* for an unterminated [, an unterminated {a,b and a table whose rows are
\* missing.
C28_Terminates ==
    /\ [] CursorInBuffer
    /\ [] NoStall
    /\ [] LoopsBounded
    /\ [][CursorAdvances]_vars
    /\ (pc = "start" ~> pc = "done")

\* parse has returned for a table header cut short inside its braces
C28_UnterminatedBraceParsed ==
    /\ pc = "done" /\ input.fam = "trunc"
    /\ input.whole = TableDoc /\ Len(input.text) = 8
    /\ input.text[Len(input.text)] = "b"
    /\ root # NULL
====
